---- MODULE Spec2Model ----
(***************************************************************************)
(* The per-function opcode-to-AST lifter of hlbc-decompiler                *)
(* (src/hlbc-decompiler/src/lib.rs) over the bytecode model of             *)
(* src/hlbc/src/types.rs.                                                  *)
(*                                                                         *)
(* One behaviour is one call decompile_code(code, f): the bytecode context *)
(* is drawn in Init and never changes, every step dispatches one opcode of *)
(* the innermost running invocation (a closure opcode starts a nested      *)
(* invocation and resumes when it returns), and the last step returns the  *)
(* statement list.  A Rust panic (expect, unwrap, panic!, an index out of  *)
(* bounds) ends the behaviour in status "panicked".                        *)
(*                                                                         *)
(* The scope stack (mod scopes) is not among the sources; its operations   *)
(* are written from section 4.1 of the specification.                      *)
(***************************************************************************)
EXTENDS Integers, Sequences, FiniteSets, TLC

\* ------------------------------------------------------------------------
\* Bounds of the model
\* ------------------------------------------------------------------------

\* Most opcodes before the final Ret of a function drawn for its control flow,
\* for its register traffic, for its closures.
MaxOps == 3

MaxRegOps == 2

MaxClosureOps == 2

\* Opcodes between the Label and the final Ret of a function drawn for its loop.
MaxLoopOps == 3

\* Most opcodes before the final Ret of the function two calls are run on.
MaxPairOps == 2

\* Most opcodes before the final Ret of a function drawn for its calls and
\* field stores.
MaxCallOps == 3

\* Most fields a class drawn for decompile_class declares itself.
MaxOwnFields == 2

\* Largest magnitude of an integer or finite float operand of a conditional
\* jump drawn for the evaluation of its condition.
MaxOperand == 1

\* Most conditional jumps between the Label and the backward jump of a
\* function drawn for its loop exits.
MaxExitOps == 2

\* Most opcodes between the Switch and the final Ret of a function drawn for
\* its switch.
MaxSwitchOps == 3

\* Most opcodes before the final Ret of a function drawn for its structures.
MaxStructOps == 3

\* Most nested decompile_code invocations the model follows.
MaxDepth == 3

\* ------------------------------------------------------------------------
\* Option<T>, HashMap
\* ------------------------------------------------------------------------

None == <<>>

Some(v) == <<v>>

IsSome(o) == o # <<>>

Unwrap(o) == o[1]

\* HashMap::insert
Insert(m, k, v) == [x \in (DOMAIN m) \cup {k} |-> IF x = k THEN v ELSE m[x]]

EmptyMap == [x \in {} |-> 0]

\* ------------------------------------------------------------------------
\* ast: expressions and statements (constructors of mod ast as used by lib.rs)
\* ------------------------------------------------------------------------

cst_this == [k |-> "This"]

cst_null == [k |-> "Null"]

cst_int(v) == [k |-> "Int", v |-> v]

cst_string(s) == [k |-> "String", s |-> s]

\* ast::cst_bool, ast::cst_float
cst_bool(v) == [k |-> "Bool", v |-> v]

cst_float(v) == [k |-> "Float", v |-> v]

Unknown(msg) == [k |-> "Unknown", msg |-> msg]

Variable(reg, name) == [k |-> "Variable", reg |-> reg, name |-> name]

UnOp(kind, e) == [k |-> "UnOp", kind |-> kind, e |-> e]

BinOp(kind, a, b) == [k |-> "BinOp", kind |-> kind, a |-> a, b |-> b]

not(e) == UnOp("not", e)

add(a, b) == BinOp("add", a, b)

Field(e, name) == [k |-> "Field", e |-> e, name |-> name]

Closure(fun, stmts) == [k |-> "Closure", fun |-> fun, stmts |-> stmts]

Anonymous(ty, fields) == [k |-> "Anonymous", ty |-> ty, fields |-> fields]

call(e, args) == [k |-> "Call", callee |-> e, args |-> args]

FunRef(fun) == [k |-> "FunRef", fun |-> fun]

call_fun(fun, args) == call(FunRef(fun), args)

\* ast::stmt
ExprStmt(e) == [k |-> "ExprStmt", e |-> e]

ConstructorCall(ty, args) == [k |-> "Constructor", ty |-> ty, args |-> args]

Assign(declaration, variable, assign) ==
    [k |-> "Assign", declaration |-> declaration, variable |-> variable, assign |-> assign]

Return(e) == [k |-> "Return", e |-> e]

Throw(e) == [k |-> "Throw", e |-> e]

comment(text) == [k |-> "Comment", text |-> text]

StmtBreak == [k |-> "Break"]

StmtContinue == [k |-> "Continue"]

StmtIf(cond, stmts, else_) == [k |-> "If", cond |-> cond, stmts |-> stmts, else_ |-> else_]

StmtWhile(cond, stmts) == [k |-> "While", cond |-> cond, stmts |-> stmts]

StmtSwitch(arg, default, cases) ==
    [k |-> "Switch", arg |-> arg, default |-> default, cases |-> cases]

StmtTry(stmts) == [k |-> "Try", stmts |-> stmts]

\* ------------------------------------------------------------------------
\* The bytecode context (hlbc::Bytecode) and hlbc::types
\* ------------------------------------------------------------------------

VARIABLES
    code,     \* the read-only bytecode context
    entry,    \* findex of the function handed to the outermost decompile_code
    frames,   \* one DecompilerState per running decompile_code, innermost last
    status,   \* "running", "done" (statements returned) or "panicked"
    panic,    \* the panic's message
    result,   \* the statement list returned by the outermost decompile_code
    other,    \* a second call of decompile_code over the same context
    class     \* a call of decompile_class over the context

vars == <<code, entry, frames, status, panic, result, other, class>>

\* RefString::resolve
ResolveString(s) == code.strings[s + 1]

\* RefType::resolve
ResolveType(t) == code.types[t]

\* RefType::is_void
is_void(t) == t = 0

\* RefType::resolve_as_fun
resolve_as_fun(t) ==
    IF ResolveType(t).k \in {"Fun", "Method"} THEN Some(ResolveType(t)) ELSE None

\* RefType::resolve_as_obj, through Type::get_type_obj
resolve_as_obj(t) ==
    IF ResolveType(t).k \in {"Obj", "Struct"} THEN Some(ResolveType(t)) ELSE None

\* Function::regtype
regtype(f, reg) == f.regs[reg + 1]

\* Function::ty (the function's type is a TypeFun in every context drawn)
ty(f) == Unwrap(resolve_as_fun(f.t))

\* Function::arg_name: the pos-th entry of assigns whose opcode index is 0
arg_name(f, pos) ==
    IF f.assigns = None THEN None
    ELSE LET args == SelectSeq(Unwrap(f.assigns), LAMBDA e : e[2] = 0)
         IN  IF pos + 1 <= Len(args) THEN Some(ResolveString(args[pos + 1][1])) ELSE None

\* Function::var_name: the first entry of assigns with pos + 1 == i
var_name(f, pos) ==
    IF f.assigns = None THEN None
    ELSE LET hits == SelectSeq(Unwrap(f.assigns), LAMBDA e : pos + 1 = e[2])
         IN  IF hits # <<>> THEN Some(ResolveString(hits[1][1])) ELSE None

\* Function::is_method
is_method(f) ==
    IF f.parent = None THEN FALSE
    ELSE f.regs # <<>> /\ f.regs[1] = Unwrap(f.parent)

\* RefFun::resolve_as_fn, through RefFunKnown::resolve_as_fn
resolve_as_fn(fun) ==
    IF code.findexes[fun + 1].k = "Fun"
    THEN Some(code.functions[code.findexes[fun + 1].x + 1])
    ELSE None

\* RefFun::ty: the type of the function or of the native
RefFunTy(fun) ==
    IF code.findexes[fun + 1].k = "Fun"
    THEN ty(code.functions[code.findexes[fun + 1].x + 1])
    ELSE Unwrap(resolve_as_fun(code.natives[code.findexes[fun + 1].x + 1].t))

\* ast::field: the access of a field by the name the object's type gives it
ast_field(e, t, field) ==
    Field(e, IF ResolveType(t).k \in {"Obj", "Struct", "Virtual"}
                /\ field < Len(ResolveType(t).fields)
             THEN ResolveString(ResolveType(t).fields[field + 1].name)
             ELSE "_")

\* ------------------------------------------------------------------------
\* mod scopes: the scope stack (specification, section 4.1)
\* ------------------------------------------------------------------------

Scope(ty_, end, start, cond, offsets) ==
    [ty |-> ty_, end |-> end, start |-> start, cond |-> cond, offsets |-> offsets,
     stmts |-> <<>>, then_ |-> <<>>, cases |-> <<>>, cur |-> None]

\* Scopes::new: the root scope alone.  cursor is the opcode position the stack
\* has been advanced to; opened and folds record every push and every fold.
ScopesNew ==
    [scopes |-> <<Scope("Root", -1, -1, cst_null, <<>>)>>,
     cursor |-> 0, opened |-> 0, folds |-> <<>>]

LastScope(S) == S.scopes[Len(S.scopes)]

PushScope(S, sc) == [S EXCEPT !.scopes = Append(@, sc), !.opened = @ + 1]

\* push_loop(header_index)
push_loop(S, start) ==
    PushScope(S, Scope("Loop", -1, start, Unknown("no condition"), <<>>))

\* push_if(end_offset, cond): len opcodes from the cursor
push_if(S, len, cond) == PushScope(S, Scope("If", S.cursor + len, -1, cond, <<>>))

\* push_else(end_offset): the innermost If becomes an If/Else
push_else(S, len) ==
    [S EXCEPT !.scopes[Len(S.scopes)] =
        [@ EXCEPT !.ty = "Else", !.end = S.cursor + len,
                  !.then_ = LastScope(S).stmts, !.stmts = <<>>]]

\* push_switch(end_offset, scrutinee, case_targets)
push_switch(S, len, arg, offsets) ==
    PushScope(S, Scope("Switch", S.cursor + len, -1, arg, offsets))

\* The statements gathered since the last case start close that case; the
\* segment before the first case is the default.
CloseCase(sc) ==
    IF sc.cur = None
    THEN [sc EXCEPT !.then_ = sc.stmts, !.stmts = <<>>]
    ELSE [sc EXCEPT !.cases = Append(@, [pattern |-> Unwrap(sc.cur), stmts |-> sc.stmts]),
                    !.stmts = <<>>]

\* push_switch_case(case_index)
push_switch_case(S, idx) ==
    [S EXCEPT !.scopes[Len(S.scopes)] = [CloseCase(@) EXCEPT !.cur = Some(idx)]]

\* push_try(end_offset)
push_try(S, len) == PushScope(S, Scope("Try", S.cursor + len, -1, cst_null, <<>>))

\* push_stmt(stmt): append to the innermost scope
push_stmt(S, stmt) == [S EXCEPT !.scopes[Len(S.scopes)].stmts = Append(@, stmt)]

\* The structured statement a scope folds into.
MakeStmt(sc) ==
    CASE sc.ty = "If" -> StmtIf(sc.cond, sc.stmts, None)
      [] sc.ty = "Else" -> StmtIf(sc.cond, sc.then_, Some(sc.stmts))
      [] sc.ty = "Switch" -> StmtSwitch(sc.cond, CloseCase(sc).then_, CloseCase(sc).cases)
      [] sc.ty = "Try" -> StmtTry(sc.stmts)
      [] OTHER -> StmtWhile(sc.cond, sc.stmts)

\* Pop the innermost scope and append its statement to the enclosing scope.
FoldLast(S) ==
    LET top == LastScope(S)
        popped == [S EXCEPT !.scopes = SubSeq(@, 1, Len(@) - 1),
                            !.folds = Append(@, [ty |-> top.ty, end |-> top.end,
                                                 start |-> top.start, at |-> S.cursor])]
    IN  push_stmt(popped, MakeStmt(top))

\* A faulty advance: it drops whatever scope is innermost once the cursor is
\* past that scope's end-offset, the root included.
advance_DropsAnyScope(S) ==
    LET moved == [S EXCEPT !.cursor = @ + 1]
    IN  IF LastScope(S).ty # "Loop" /\ LastScope(S).end <= moved.cursor
        THEN [moved EXCEPT !.scopes = SubSeq(@, 1, Len(@) - 1)]
        ELSE moved

\* advance(): once per opcode; the innermost scope is folded when the cursor
\* reaches its end-offset.  The root and loops have no end-offset.
advance(S) ==
    LET moved == [S EXCEPT !.cursor = @ + 1]
    IN  IF /\ Len(S.scopes) > 1
           /\ LastScope(S).ty \in {"If", "Else", "Switch", "Try"}
           /\ LastScope(S).end = moved.cursor
        THEN FoldLast(moved)
        ELSE moved

\* end_last_loop(): Some(While) and the loop popped when the innermost scope is
\* a loop, None otherwise.
end_last_loop(S) ==
    IF Len(S.scopes) > 1 /\ LastScope(S).ty = "Loop"
    THEN [scopes |-> [S EXCEPT !.scopes = SubSeq(@, 1, Len(@) - 1),
                               !.folds = Append(@, [ty |-> "Loop", end |-> -1,
                                                    start |-> LastScope(S).start,
                                                    at |-> S.cursor])],
          stmt |-> Some(MakeStmt(LastScope(S)))]
    ELSE [scopes |-> S, stmt |-> None]

last_is_if(S) == LastScope(S).ty = "If"

last_is_switch_ctx(S) ==
    IF LastScope(S).ty = "Switch" THEN Some(LastScope(S).offsets) ELSE None

\* Index in the stack of the innermost open loop, 0 when there is none.
LastLoopIdx(S) ==
    LET loops == {j \in 1..Len(S.scopes) : S.scopes[j].ty = "Loop"}
    IN  IF loops = {} THEN 0 ELSE CHOOSE j \in loops : \A l \in loops : l <= j

last_loop_start(S) ==
    IF LastLoopIdx(S) = 0 THEN None ELSE Some(S.scopes[LastLoopIdx(S)].start)

\* last_loop_cond_mut(): the innermost loop's condition, and its assignment
last_loop_cond_mut(S) ==
    IF LastLoopIdx(S) = 0 THEN None ELSE Some(S.scopes[LastLoopIdx(S)].cond)

SetLastLoopCond(S, cond) == [S EXCEPT !.scopes[LastLoopIdx(S)].cond = cond]

has_scopes(S) == Len(S.scopes) > 1

\* statements(): the root scope's statements
statements(S) == S.scopes[1].stmts

\* ------------------------------------------------------------------------
\* DecompilerState
\* ------------------------------------------------------------------------

\* Range of a Rust `for i in a..b`.
Range(a, b) == {i \in a..(b - 1) : TRUE}

\* First register that holds an argument: 1 when register 0 is `this`.
ArgStart(f) ==
    IF \/ is_method(f)
       \/ (f.name # None /\ ResolveString(Unwrap(f.name)) = "__constructor__")
    THEN 1 ELSE 0

\* A faulty DecompilerState::new: the argument names are not put in seen.
NewState_ForgetsArgNames(f) ==
    LET start == ArgStart(f)
        args == Range(start, Len(ty(f).args))
    IN  [f |-> f,
         i |-> 0,
         scopes |-> ScopesNew,
         reg_state |-> [r \in args \cup (IF start = 1 THEN {0} ELSE {}) |->
                           IF start = 1 /\ r = 0 THEN cst_this
                           ELSE Variable(r, arg_name(f, r - start))],
         expr_ctx |-> <<>>,
         seen |-> {},
         emitted |-> <<>>,
         stored |-> {},
         err |-> ""]

\* DecompilerState::new.  i is the position of decompile_code's loop; emitted
\* records every statement handed to push_stmt, stored every register handed
\* to push_expr; err is the message of a panic raised by the current handler.
NewState(f) ==
    LET start == ArgStart(f)
        args == Range(start, Len(ty(f).args))
    IN  [f |-> f,
         i |-> 0,
         scopes |-> ScopesNew,
         reg_state |-> [r \in args \cup (IF start = 1 THEN {0} ELSE {}) |->
                           IF start = 1 /\ r = 0 THEN cst_this
                           ELSE Variable(r, arg_name(f, r - start))],
         expr_ctx |-> <<>>,
         seen |-> {Unwrap(arg_name(f, r - start)) : r \in {a \in args : arg_name(f, a - start) # None}},
         emitted |-> <<>>,
         stored |-> {},
         err |-> ""]

Panic(s, msg) == [s EXCEPT !.err = msg]

\* DecompilerState::push_stmt
PushStmt(s, stmt) ==
    [s EXCEPT !.scopes = push_stmt(@, stmt), !.emitted = Append(@, stmt)]

\* A faulty push_expr: every Assign it emits is a declaration.
push_expr_AlwaysDeclares(s, i, dst, e) ==
    LET name == var_name(s.f, i)
    IN  IF name = None
        THEN [s EXCEPT !.reg_state = Insert(@, dst, e), !.stored = @ \cup {dst}]
        ELSE PushStmt([s EXCEPT !.reg_state = Insert(@, dst, Variable(dst, name)),
                                !.seen = @ \cup {Unwrap(name)},
                                !.stored = @ \cup {dst}],
                      Assign(TRUE, Variable(dst, name), e))

\* A faulty push_expr: an inlined expression is not kept in the register state.
push_expr_DropsInlined(s, i, dst, e) ==
    LET name == var_name(s.f, i)
    IN  IF name = None
        THEN [s EXCEPT !.stored = @ \cup {dst}]
        ELSE LET declaration == Unwrap(name) \notin s.seen
             IN  PushStmt([s EXCEPT !.reg_state = Insert(@, dst, Variable(dst, name)),
                                    !.seen = @ \cup {Unwrap(name)},
                                    !.stored = @ \cup {dst}],
                          Assign(declaration, Variable(dst, name), e))

\* A faulty push_expr: the seen set is one set for every call of decompile_code.
push_expr_SharedSeen(s, i, dst, e) ==
    LET name == var_name(s.f, i)
        elsewhere == UNION {other.frames[j].seen : j \in 1..Len(other.frames)}
    IN  IF name = None
        THEN [s EXCEPT !.reg_state = Insert(@, dst, e), !.stored = @ \cup {dst}]
        ELSE LET declaration == Unwrap(name) \notin s.seen \cup elsewhere
             IN  PushStmt([s EXCEPT !.reg_state = Insert(@, dst, Variable(dst, name)),
                                    !.seen = @ \cup {Unwrap(name)},
                                    !.stored = @ \cup {dst}],
                          Assign(declaration, Variable(dst, name), e))

\* A faulty push_expr: a named destination keeps the expression itself in the
\* register state instead of the variable.
push_expr_KeepsExpr(s, i, dst, e) ==
    LET name == var_name(s.f, i)
    IN  IF name = None
        THEN [s EXCEPT !.reg_state = Insert(@, dst, e), !.stored = @ \cup {dst}]
        ELSE LET declaration == Unwrap(name) \notin s.seen
             IN  PushStmt([s EXCEPT !.reg_state = Insert(@, dst, e),
                                    !.seen = @ \cup {Unwrap(name)},
                                    !.stored = @ \cup {dst}],
                          Assign(declaration, Variable(dst, name), e))

\* DecompilerState::push_expr
push_expr(s, i, dst, e) ==
    LET name == var_name(s.f, i)
    IN  IF name = None
        THEN [s EXCEPT !.reg_state = Insert(@, dst, e), !.stored = @ \cup {dst}]
        ELSE LET declaration == Unwrap(name) \notin s.seen
             IN  PushStmt([s EXCEPT !.reg_state = Insert(@, dst, Variable(dst, name)),
                                    !.seen = @ \cup {Unwrap(name)},
                                    !.stored = @ \cup {dst}],
                          Assign(declaration, Variable(dst, name), e))

\* A faulty expr: a register with no entry is looked up in the register state
\* of the other call.
expr_SharedRegisters(s, reg) ==
    IF reg \in DOMAIN s.reg_state THEN s.reg_state[reg]
    ELSE IF other.frames # <<>> /\ reg \in DOMAIN other.frames[1].reg_state
         THEN other.frames[1].reg_state[reg]
         ELSE Unknown("missing expr")

\* A faulty expr: a register with no entry reads as the null constant.
expr_DefaultsNull(s, reg) ==
    IF reg \in DOMAIN s.reg_state THEN s.reg_state[reg] ELSE cst_null

\* DecompilerState::expr
expr(s, reg) ==
    IF reg \in DOMAIN s.reg_state THEN s.reg_state[reg] ELSE Unknown("missing expr")

\* DecompilerState::args_expr
args_expr(s, args) == [j \in 1..Len(args) |-> expr(s, args[j])]

\* f.ops[j], a Rust index: j counts from 0
OpAt(f, j) == f.ops[j + 1]

IsBackJump(o) == o.op = "JAlways" /\ o.offset < 0

\* A faulty push_jmp: it looks for the backward jump at the jump's target
\* instead of at the opcode before the target.
push_jmp_LooksAtTarget(s, i, offset, cond) ==
    IF offset > 0
    THEN IF i + offset + 1 >= Len(s.f.ops)
         THEN Panic(s, "index out of bounds")
         ELSE IF IsBackJump(OpAt(s.f, i + offset + 1))
                 /\ last_loop_cond_mut(s.scopes) # None
                 /\ Unwrap(last_loop_cond_mut(s.scopes)).k = "Unknown"
              THEN [s EXCEPT !.scopes = SetLastLoopCond(@, cond)]
              ELSE [s EXCEPT !.scopes = push_if(@, offset + 1, cond)]
    ELSE s

\* A faulty push_jmp: an exit test always replaces the condition of the open
\* loop, whatever that condition is.
push_jmp_OverwritesCond(s, i, offset, cond) ==
    IF offset > 0
    THEN IF i + offset >= Len(s.f.ops)
         THEN Panic(s, "index out of bounds")
         ELSE IF IsBackJump(OpAt(s.f, i + offset)) /\ last_loop_cond_mut(s.scopes) # None
              THEN [s EXCEPT !.scopes = SetLastLoopCond(@, cond)]
              ELSE [s EXCEPT !.scopes = push_if(@, offset + 1, cond)]
    ELSE s

\* A faulty push_jmp: the offset's sign is not tested.
push_jmp_AnyOffset(s, i, offset, cond) ==
    IF i + offset >= Len(s.f.ops) \/ i + offset < 0
    THEN Panic(s, "index out of bounds")
    ELSE IF IsBackJump(OpAt(s.f, i + offset))
         THEN IF last_loop_cond_mut(s.scopes) # None
              THEN IF Unwrap(last_loop_cond_mut(s.scopes)).k = "Unknown"
                   THEN [s EXCEPT !.scopes = SetLastLoopCond(@, cond)]
                   ELSE [s EXCEPT !.scopes = push_if(@, offset + 1, cond)]
              ELSE [s EXCEPT !.scopes = push_if(@, offset + 1, cond)]
         ELSE [s EXCEPT !.scopes = push_if(@, offset + 1, cond)]

\* DecompilerState::push_jmp
push_jmp(s, i, offset, cond) ==
    IF offset > 0
    THEN IF i + offset >= Len(s.f.ops)
         THEN Panic(s, "index out of bounds")
         ELSE IF IsBackJump(OpAt(s.f, i + offset))
              THEN IF last_loop_cond_mut(s.scopes) # None
                   THEN IF Unwrap(last_loop_cond_mut(s.scopes)).k = "Unknown"
                        THEN [s EXCEPT !.scopes = SetLastLoopCond(@, cond)]
                        ELSE [s EXCEPT !.scopes = push_if(@, offset + 1, cond)]
                   ELSE [s EXCEPT !.scopes = push_if(@, offset + 1, cond)]
              ELSE [s EXCEPT !.scopes = push_if(@, offset + 1, cond)]
    ELSE s

\* ------------------------------------------------------------------------
\* decompile_code: one handler per arm of the opcode match
\* ------------------------------------------------------------------------

\* Function::display_id / RefFun::display_id, "{name}@{findex}", kept as a pair
display_id(fun) ==
    IF resolve_as_fn(fun) # None
    THEN <<IF Unwrap(resolve_as_fn(fun)).name = None THEN "_"
           ELSE ResolveString(Unwrap(Unwrap(resolve_as_fn(fun)).name)), "@", fun>>
    ELSE <<"native", "@", fun>>

\* The condition a conditional jump hands to push_jmp.
JumpCond(s, o) ==
    CASE o.op = "JTrue" -> not(expr(s, o.cond))
      [] o.op = "JFalse" -> expr(s, o.cond)
      [] o.op = "JNull" -> BinOp("noteq", expr(s, o.reg), cst_null)
      [] o.op = "JNotNull" -> BinOp("eq", expr(s, o.reg), cst_null)
      [] o.op \in {"JSGte", "JUGte"} -> BinOp("gt", expr(s, o.b), expr(s, o.a))
      [] o.op = "JSGt" -> BinOp("gte", expr(s, o.b), expr(s, o.a))
      [] o.op = "JSLte" -> BinOp("lt", expr(s, o.b), expr(s, o.a))
      [] o.op \in {"JSLt", "JULt"} -> BinOp("lte", expr(s, o.b), expr(s, o.a))
      [] o.op = "JEq" -> BinOp("noteq", expr(s, o.a), expr(s, o.b))
      [] OTHER -> BinOp("eq", expr(s, o.a), expr(s, o.b))

CondJumps ==
    {"JTrue", "JFalse", "JNull", "JNotNull", "JSGte", "JUGte", "JSGt", "JSLte",
     "JSLt", "JULt", "JEq", "JNotEq"}

HandleCondJump(s, o) == push_jmp(s, s.i, o.offset, JumpCond(s, o))

\* Whether a later JAlways jumps to the same loop header.
HasLaterJumpTo(f, i, loop_start) ==
    \E j \in (i + 1)..(Len(f.ops) - 1) :
        /\ OpAt(f, j).op = "JAlways"
        /\ j + OpAt(f, j).offset + 1 = loop_start

\* A faulty backward JAlways: it does not scan for a later jump to the same
\* header and closes the loop at its first backward jump.
HandleJumpBack_ClosesAtFirst(s, o) ==
    IF last_loop_start(s.scopes) = None
    THEN Panic(s, "Backward jump but we aren't in a loop ?")
    ELSE IF end_last_loop(s.scopes).stmt # None
         THEN PushStmt([s EXCEPT !.scopes = end_last_loop(s.scopes).scopes],
                       Unwrap(end_last_loop(s.scopes).stmt))
         ELSE Panic(s, "Last scope is not a loop !")

\* JAlways with a negative offset: a continue, or the end of the loop
HandleJumpBack(s, o) ==
    IF last_loop_start(s.scopes) = None
    THEN Panic(s, "Backward jump but we aren't in a loop ?")
    ELSE IF HasLaterJumpTo(s.f, s.i, Unwrap(last_loop_start(s.scopes)))
         THEN PushStmt(s, StmtContinue)
         ELSE IF end_last_loop(s.scopes).stmt # None
              THEN PushStmt([s EXCEPT !.scopes = end_last_loop(s.scopes).scopes],
                            Unwrap(end_last_loop(s.scopes).stmt))
              ELSE Panic(s, "Last scope is not a loop !")

\* offsets.iter().position(|o| *o == i)
Position(offsets, i) ==
    IF \E p \in 1..Len(offsets) : offsets[p] = i
    THEN Some((CHOOSE p \in 1..Len(offsets) :
                  offsets[p] = i /\ \A q \in 1..(p - 1) : offsets[q] # i) - 1)
    ELSE None

\* A faulty forward JAlways: the break test reads the jump's target instead of
\* the opcode before it.
HandleJumpForward_LooksAtTarget(s, o) ==
    IF last_is_switch_ctx(s.scopes) # None
    THEN IF Position(Unwrap(last_is_switch_ctx(s.scopes)), s.i) # None
         THEN [s EXCEPT !.scopes =
                  push_switch_case(@, Unwrap(Position(Unwrap(last_is_switch_ctx(s.scopes)), s.i)))]
         ELSE Panic(s, "no matching offset for switch case")
    ELSE IF last_loop_start(s.scopes) # None
         THEN IF s.i + o.offset + 1 >= Len(s.f.ops)
              THEN Panic(s, "index out of bounds")
              ELSE IF IsBackJump(OpAt(s.f, s.i + o.offset + 1))
                   THEN PushStmt(s, StmtBreak)
                   ELSE s
         ELSE IF last_is_if(s.scopes)
              THEN [s EXCEPT !.scopes = push_else(@, o.offset + 1)]
              ELSE s

\* A faulty forward JAlways: the innermost If is tested before the open loop.
HandleJumpForward_ElseBeforeLoop(s, o) ==
    IF last_is_switch_ctx(s.scopes) # None
    THEN IF Position(Unwrap(last_is_switch_ctx(s.scopes)), s.i) # None
         THEN [s EXCEPT !.scopes =
                  push_switch_case(@, Unwrap(Position(Unwrap(last_is_switch_ctx(s.scopes)), s.i)))]
         ELSE Panic(s, "no matching offset for switch case")
    ELSE IF last_is_if(s.scopes)
         THEN [s EXCEPT !.scopes = push_else(@, o.offset + 1)]
         ELSE IF last_loop_start(s.scopes) # None
              THEN IF s.i + o.offset >= Len(s.f.ops)
                   THEN Panic(s, "index out of bounds")
                   ELSE IF IsBackJump(OpAt(s.f, s.i + o.offset))
                        THEN PushStmt(s, StmtBreak)
                        ELSE s
              ELSE s

\* A faulty forward JAlways: inside a loop it emits a Break whatever the opcode
\* before its target is.
HandleJumpForward_BreaksAlways(s, o) ==
    IF last_is_switch_ctx(s.scopes) # None
    THEN IF Position(Unwrap(last_is_switch_ctx(s.scopes)), s.i) # None
         THEN [s EXCEPT !.scopes =
                  push_switch_case(@, Unwrap(Position(Unwrap(last_is_switch_ctx(s.scopes)), s.i)))]
         ELSE Panic(s, "no matching offset for switch case")
    ELSE IF last_loop_start(s.scopes) # None
         THEN IF s.i + o.offset >= Len(s.f.ops)
              THEN Panic(s, "index out of bounds")
              ELSE PushStmt(s, StmtBreak)
         ELSE IF last_is_if(s.scopes)
              THEN [s EXCEPT !.scopes = push_else(@, o.offset + 1)]
              ELSE s

\* JAlways with an offset >= 0: a switch case, a break, an else, or nothing
HandleJumpForward(s, o) ==
    IF last_is_switch_ctx(s.scopes) # None
    THEN IF Position(Unwrap(last_is_switch_ctx(s.scopes)), s.i) # None
         THEN [s EXCEPT !.scopes =
                  push_switch_case(@, Unwrap(Position(Unwrap(last_is_switch_ctx(s.scopes)), s.i)))]
         ELSE Panic(s, "no matching offset for switch case")
    ELSE IF last_loop_start(s.scopes) # None
         THEN IF s.i + o.offset >= Len(s.f.ops)
              THEN Panic(s, "index out of bounds")
              ELSE IF IsBackJump(OpAt(s.f, s.i + o.offset))
                   THEN PushStmt(s, StmtBreak)
                   ELSE s
         ELSE IF last_is_if(s.scopes)
              THEN [s EXCEPT !.scopes = push_else(@, o.offset + 1)]
              ELSE s

\* A faulty JAlways: the violations of the scope stack are passed over.
HandleJAlways_Lenient(s, o) ==
    IF o.offset < 0
    THEN IF HandleJumpBack(s, o).err # "" THEN s ELSE HandleJumpBack(s, o)
    ELSE IF HandleJumpForward(s, o).err \in {"no matching offset for switch case"}
         THEN s ELSE HandleJumpForward(s, o)

HandleJAlways(s, o) ==
    IF o.offset < 0 THEN HandleJumpBack(s, o) ELSE HandleJumpForward(s, o)

\* A faulty Switch arm: the case targets are kept relative to the Switch.
HandleSwitch_RelativeTargets(s, o) ==
    [s EXCEPT !.scopes = push_switch(@, o.end + 1, expr(s, o.reg), o.offsets)]

HandleSwitch(s, o) ==
    [s EXCEPT !.scopes = push_switch(@, o.end + 1, expr(s, o.reg),
                                     [p \in 1..Len(o.offsets) |-> s.i + o.offsets[p]])]

HandleLabel(s, o) == [s EXCEPT !.scopes = push_loop(@, s.i)]

\* A faulty Ret arm: it suppresses the return of void inside a scope as it
\* does at top level.
HandleRet_IgnoresScopes(s, o) ==
    IF ~is_void(regtype(s.f, o.ret))
    THEN PushStmt(s, Return(Some(expr(s, o.ret))))
    ELSE s

\* Ret
HandleRet(s, o) ==
    IF has_scopes(s.scopes)
    THEN PushStmt(s, Return(IF is_void(regtype(s.f, o.ret)) THEN None
                            ELSE Some(expr(s, o.ret))))
    ELSE IF ~is_void(regtype(s.f, o.ret))
         THEN PushStmt(s, Return(Some(expr(s, o.ret))))
         ELSE s

\* Throw, Rethrow
HandleThrow(s, o) == PushStmt(s, Throw(expr(s, o.exc)))

HandleTrap(s, o) == [s EXCEPT !.scopes = push_try(@, o.offset + 1)]

HandleEndTrap(s, o) == s

\* Int, Null (Float, Bool, String alike)
HandleConstant(s, o) ==
    push_expr(s, s.i, o.dst,
              IF o.op = "Int" THEN cst_int(code.ints[o.ptr + 1]) ELSE cst_null)

HandleMov(s, o) ==
    [push_expr(s, s.i, o.dst, expr(s, o.src))
        EXCEPT !.reg_state = Insert(@, o.src, Variable(o.dst, var_name(s.f, s.i)))]

HandleAdd(s, o) == push_expr(s, s.i, o.dst, add(expr(s, o.a), expr(s, o.b)))

\* globals_initializers.get(&global).and_then(|&x| constants.as_ref().map(..))
GlobalString(global) ==
    IF global \in DOMAIN code.globals_initializers /\ code.constants # None
    THEN Some(code.strings[
            Unwrap(code.constants)[code.globals_initializers[global] + 1].fields[1] + 1])
    ELSE None

HandleGetGlobal(s, o) ==
    IF regtype(s.f, o.dst) = 13
    THEN IF GlobalString(o.global) # None
         THEN push_expr(s, s.i, o.dst, cst_string(Unwrap(GlobalString(o.global))))
         ELSE Panic(s, "called Option::unwrap() on a None value")
    ELSE CASE ResolveType(regtype(s.f, o.dst)).k \in {"Obj", "Struct"} ->
                push_expr(s, s.i, o.dst,
                    Variable(o.dst, Some(ResolveString(ResolveType(regtype(s.f, o.dst)).name))))
           [] ResolveType(regtype(s.f, o.dst)).k = "Enum" ->
                push_expr(s, s.i, o.dst, Unknown("unknown enum variant"))
           [] OTHER -> s

HandleNew(s, o) ==
    CASE ResolveType(regtype(s.f, o.dst)).k \in {"Obj", "Struct"} ->
            [s EXCEPT !.expr_ctx = Append(@, [k |-> "Constructor", reg |-> o.dst, pos |-> s.i])]
      [] ResolveType(regtype(s.f, o.dst)).k = "Virtual" ->
            [s EXCEPT !.expr_ctx = Append(@,
                [k |-> "Anonymous", pos |-> s.i, fields |-> EmptyMap,
                 remaining |-> Len(ResolveType(regtype(s.f, o.dst)).fields)])]
      [] OTHER ->
            push_expr(s, s.i, o.dst, ConstructorCall(regtype(s.f, o.dst), <<>>))

Last(q) == q[Len(q)]

Front(q) == SubSeq(q, 1, Len(q) - 1)

\* The ordinary call of push_call: the comment, the call expression, and its
\* statement or its register.
OrdinaryCall(s, i, dst, fun, args) ==
    LET s1 == PushStmt(s, comment(display_id(fun)))
        func == resolve_as_fn(fun)
    IN  IF func # None /\ is_method(Unwrap(func)) /\ Unwrap(func).name = None
        THEN Panic(s1, "called Option::unwrap() on a None value")
        ELSE LET c == IF func # None /\ is_method(Unwrap(func))
                      THEN call(Field(expr(s, args[1]),
                                      ResolveString(Unwrap(Unwrap(func).name))),
                                args_expr(s, Tail(args)))
                      ELSE call_fun(fun, args_expr(s, args))
             IN  IF is_void(RefFunTy(fun).ret)
                 THEN PushStmt(s1, ExprStmt(c))
                 ELSE push_expr(s1, i, dst, c)

\* A faulty push_call: the constructed object stays among the arguments of
\* the constructor call.
push_call_KeepsReceiver(s, i, dst, fun, args) ==
    IF s.expr_ctx # <<>> /\ Last(s.expr_ctx).k = "Constructor"
    THEN LET c == Last(s.expr_ctx)
         IN  IF c.reg = args[1]
             THEN [push_expr(s, c.pos, c.reg,
                             ConstructorCall(regtype(s.f, c.reg), args_expr(s, args)))
                     EXCEPT !.expr_ctx = Front(s.expr_ctx)]
             ELSE s
    ELSE OrdinaryCall(s, i, dst, fun, args)

\* DecompilerState::push_call
push_call(s, i, dst, fun, args) ==
    IF s.expr_ctx # <<>> /\ Last(s.expr_ctx).k = "Constructor"
    THEN LET c == Last(s.expr_ctx)
         IN  IF c.reg = args[1]
             THEN [push_expr(s, c.pos, c.reg,
                             ConstructorCall(regtype(s.f, c.reg), args_expr(s, Tail(args))))
                     EXCEPT !.expr_ctx = Front(s.expr_ctx)]
             ELSE s
    ELSE OrdinaryCall(s, i, dst, fun, args)

\* Call1, Call2, Call3, Call4
HandleCall(s, o) == push_call(s, s.i, o.dst, o.fun, o.args)

\* CallN: as push_call, but the pending constructor stays on the stack and
\* the call is never a method call
HandleCallN(s, o) ==
    IF s.expr_ctx # <<>> /\ Last(s.expr_ctx).k = "Constructor"
    THEN LET c == Last(s.expr_ctx)
         IN  IF o.args = <<>> THEN Panic(s, "index out of bounds")
             ELSE IF c.reg = o.args[1]
             THEN push_expr(s, c.pos, c.reg,
                            ConstructorCall(regtype(s.f, c.reg), args_expr(s, Tail(o.args))))
             ELSE s
    ELSE LET s1 == PushStmt(s, comment(display_id(o.fun)))
             c == call_fun(o.fun, args_expr(s, o.args))
         IN  IF is_void(RefFunTy(o.fun).ret)
             THEN PushStmt(s1, ExprStmt(c))
             ELSE push_expr(s1, s.i, o.dst, c)

\* RefType::method on the type of register 0: obj.protos[meth]
ThisMethod(s, meth) == Unwrap(resolve_as_obj(s.f.regs[1])).protos[meth + 1]

\* Whether the method's function is known to return void.
ReturnsVoid(method) ==
    /\ resolve_as_fn(method.findex) # None
    /\ is_void(ty(Unwrap(resolve_as_fn(method.findex))).ret)

\* A faulty CallThis arm: the call is always a statement of its own.
HandleCallThis_AlwaysStmt(s, o) ==
    PushStmt(s, ExprStmt(call(Field(cst_this, ResolveString(ThisMethod(s, o.field).name)),
                          args_expr(s, o.args))))

\* CallThis
HandleCallThis(s, o) ==
    IF resolve_as_obj(s.f.regs[1]) = None
    THEN Panic(s, "called Option::unwrap() on a None value")
    ELSE IF o.field >= Len(Unwrap(resolve_as_obj(s.f.regs[1])).protos)
    THEN Panic(s, "index out of bounds")
    ELSE LET method == ThisMethod(s, o.field)
             c == call(Field(cst_this, ResolveString(method.name)), args_expr(s, o.args))
         IN  IF ReturnsVoid(method)
             THEN PushStmt(s, ExprStmt(c))
             ELSE push_expr(s, s.i, o.dst, c)

\* usize::MAX, the value 0 - 1 wraps to; it stands for 2^64 - 1, which is past
\* the integers the model checker computes with.
UsizeMax == 2147483647

\* A faulty SetField arm: every store is an assignment to the field.
HandleSetField_Assigns(s, o) ==
    PushStmt(s, Assign(FALSE, ast_field(expr(s, o.obj), regtype(s.f, o.obj), o.field),
                       expr(s, o.src)))

\* SetField.  `remaining -= 1` on a usize that is 0 panics in a build with
\* overflow checks and wraps without them.
HandleSetField(s, o) ==
    IF s.expr_ctx # <<>>
    THEN LET ctx == Last(s.expr_ctx)
             popped == [s EXCEPT !.expr_ctx = Front(s.expr_ctx)]
         IN  IF ctx.k = "Anonymous"
             THEN LET fields == Insert(ctx.fields, o.field, expr(s, o.src))
                      remaining == IF ctx.remaining = 0 THEN UsizeMax
                                   ELSE ctx.remaining - 1
                  IN  IF ctx.remaining = 0 /\ code.overflow_checks
                      THEN Panic(popped, "attempt to subtract with overflow")
                      ELSE IF remaining = 0
                      THEN push_expr(popped, ctx.pos, o.obj,
                                     Anonymous(regtype(s.f, o.obj), fields))
                      ELSE [s EXCEPT !.expr_ctx =
                              Append(Front(s.expr_ctx),
                                     [ctx EXCEPT !.fields = fields, !.remaining = remaining])]
             ELSE s
    ELSE PushStmt(s, Assign(FALSE, ast_field(expr(s, o.obj), regtype(s.f, o.obj), o.field),
                            expr(s, o.src)))

\* A faulty catch-all arm: it leaves a comment for the opcode it skips.
HandleOther_Comments(s, o) == PushStmt(s, comment(<<"unhandled : ", o.op>>))

\* The catch-all arm: opcodes with no handler
HandleOther(s, o) == s

\* ------------------------------------------------------------------------
\* The bytecode contexts the lifter is run on
\* ------------------------------------------------------------------------

\* code.strings; a RefString counts from 0
Strings == <<"", "__constructor__", "main", "x", "y", "a", "String", "A", "f">>

\* code.types: 0 is void, 2 a class with a field x and the methods f (findex 1)
\* and a (the native), 3 a structure of x and y, 8 a structure with no field,
\* 13 the string class, 5, 6 and 7 function types
TypePool ==
    [t \in 0..13 |->
        CASE t = 0 -> [k |-> "Void"]
          [] t = 1 -> [k |-> "I32"]
          [] t = 2 -> [k |-> "Obj", name |-> 7,
                       fields |-> <<[name |-> 3, t |-> 1]>>,
                       protos |-> <<[name |-> 8, findex |-> 1, pindex |-> 0],
                                    [name |-> 5, findex |-> 2, pindex |-> 1]>>]
          [] t = 3 -> [k |-> "Virtual", fields |-> <<[name |-> 3, t |-> 1], [name |-> 4, t |-> 1]>>]
          [] t = 4 -> [k |-> "Enum", name |-> 0]
          [] t = 5 -> [k |-> "Fun", args |-> <<>>, ret |-> 0]
          [] t = 6 -> [k |-> "Fun", args |-> <<2, 1>>, ret |-> 1]
          [] t = 7 -> [k |-> "Fun", args |-> <<1, 1, 1, 1>>, ret |-> 0]
          [] t = 8 -> [k |-> "Virtual", fields |-> <<>>]
          [] t = 13 -> [k |-> "Obj", name |-> 6, fields |-> <<>>, protos |-> <<>>]
          [] OTHER -> [k |-> "Dyn"]]

\* Register types of every function drawn: r0 an object, r1 an int, r2 void,
\* r3 an enum, r4 a string, r5 a virtual, r6 an object
RegTypes == <<2, 1, 0, 4, 13, 3, 2>>

Fn(findex, shape, assigns, ops) ==
    [name |-> CASE shape = "ctor" -> Some(1) [] shape = "method" -> Some(8) [] OTHER -> Some(2),
     t |-> IF shape = "static" THEN 5 ELSE 6,
     findex |-> findex,
     regs |-> RegTypes,
     ops |-> ops,
     assigns |-> assigns,
     parent |-> IF shape = "method" THEN Some(2) ELSE None]

\* findex 0 and 1 are functions, findex 2 is a native; globals 0 and 1 are
\* strings, global 0 has a string initializer, global 1 has none.
\* overflow_checks is the build the lifter runs in: integer overflow panics
\* when it is on (the debug profile) and wraps when it is off (release).
Module(f0, f1) ==
    [strings |-> Strings,
     ints |-> <<7>>,
     types |-> TypePool,
     functions |-> <<f0, f1>>,
     natives |-> <<[name |-> 5, t |-> 6, findex |-> 2]>>,
     globals |-> <<13, 13>>,
     findexes |-> <<[k |-> "Fun", x |-> 0], [k |-> "Fun", x |-> 1], [k |-> "Native", x |-> 0]>>,
     globals_initializers |-> [g \in {0} |-> 0],
     constants |-> Some(<<[global |-> 0, fields |-> <<6>>]>>),
     overflow_checks |-> TRUE]

\* Debug assigns: none; an argument a and variables x, x, y at opcodes 0, 1, 2;
\* an argument x and variables x, y at opcodes 0, 1
AssignTables ==
    {None,
     Some(<< <<5, 0>>, <<3, 1>>, <<3, 2>>, <<4, 3>> >>),
     Some(<< <<3, 0>>, <<3, 1>>, <<4, 2>> >>)}

Shapes == {"static", "args", "method", "ctor"}

\* Control flow: jumps, labels, switches, traps
ControlOps ==
    {[op |-> "Label"],
     [op |-> "JFalse", cond |-> 1, offset |-> 1],
     [op |-> "JFalse", cond |-> 1, offset |-> 2],
     [op |-> "JAlways", offset |-> -2],
     [op |-> "JAlways", offset |-> -3],
     [op |-> "JAlways", offset |-> -4],
     [op |-> "JAlways", offset |-> 1],
     [op |-> "Switch", reg |-> 1, offsets |-> <<1, 3>>, end |-> 3],
     [op |-> "Trap", exc |-> 0, offset |-> 1],
     [op |-> "EndTrap", exc |-> 0],
     [op |-> "Ret", ret |-> 2],
     [op |-> "Ret", ret |-> 1],
     [op |-> "Int", dst |-> 1, ptr |-> 0],
     [op |-> "NullCheck", reg |-> 1],
     [op |-> "JNotLt", a |-> 1, b |-> 1, offset |-> 1]}

\* Register traffic: constants, moves, globals, allocations
RegisterOps ==
    {[op |-> "Int", dst |-> 1, ptr |-> 0],
     [op |-> "Null", dst |-> 4],
     [op |-> "Mov", dst |-> 1, src |-> 0],
     [op |-> "Mov", dst |-> 1, src |-> 1],
     [op |-> "Add", dst |-> 1, a |-> 1, b |-> 3],
     [op |-> "GetGlobal", dst |-> 3, global |-> 0],
     [op |-> "GetGlobal", dst |-> 4, global |-> 0],
     [op |-> "GetGlobal", dst |-> 4, global |-> 1],
     [op |-> "GetGlobal", dst |-> 6, global |-> 0],
     [op |-> "New", dst |-> 0],
     [op |-> "New", dst |-> 5],
     [op |-> "New", dst |-> 1],
     [op |-> "Throw", exc |-> 1],
     [op |-> "Ret", ret |-> 1]}

\* Closures, also of the function being lifted and of a native
ClosureOps ==
    {[op |-> "StaticClosure", dst |-> 1, fun |-> 0],
     [op |-> "StaticClosure", dst |-> 1, fun |-> 1],
     [op |-> "StaticClosure", dst |-> 1, fun |-> 2],
     [op |-> "InstanceClosure", dst |-> 1, obj |-> 3, fun |-> 1],
     [op |-> "InstanceClosure", dst |-> 1, obj |-> 0, fun |-> 1],
     [op |-> "Int", dst |-> 1, ptr |-> 0],
     [op |-> "Ret", ret |-> 1]}

ClosureBodies ==
    {<<[op |-> "Ret", ret |-> 2]>>,
     <<[op |-> "Int", dst |-> 1, ptr |-> 0], [op |-> "Ret", ret |-> 1]>>,
     <<[op |-> "StaticClosure", dst |-> 1, fun |-> 0], [op |-> "Ret", ret |-> 2]>>,
     <<[op |-> "StaticClosure", dst |-> 1, fun |-> 1], [op |-> "Ret", ret |-> 2]>>}

Leaf == Fn(1, "static", None, <<[op |-> "Ret", ret |-> 2]>>)

RetVoid == [op |-> "Ret", ret |-> 2]

RetInt == [op |-> "Ret", ret |-> 1]

\* The contexts drawn; every function ends with a Ret.  Control flow in a
\* static function; register traffic in every shape of function and debug
\* table; closures over small bodies.
ControlModule(c) ==
    \E m \in 0..MaxOps : \E ops \in [1..m -> ControlOps] :
        c = Module(Fn(0, "static", None, ops \o <<RetVoid>>), Leaf)

RegisterModule(c) ==
    \E shape \in Shapes, assigns \in AssignTables :
        \E m \in 0..MaxRegOps : \E ops \in [1..m -> RegisterOps] :
            c = Module(Fn(0, shape, assigns, ops \o <<RetInt>>), Leaf)

ClosureModule(c) ==
    \E assigns \in AssignTables, body \in ClosureBodies :
        \E m \in 1..MaxClosureOps : \E ops \in [1..m -> ClosureOps] :
            c = Module(Fn(0, "static", assigns, ops \o <<RetVoid>>),
                       Fn(1, "static", assigns, body))

\* A function of four int arguments r0..r3 and a void register r4.
LoopFn(assigns, ops) ==
    [name |-> Some(2), t |-> 7, findex |-> 0, regs |-> <<1, 1, 1, 1, 0>>,
     ops |-> ops, assigns |-> assigns, parent |-> None]

\* Debug assigns of a loop function: none; or the arguments a, x, y, f and the
\* variable x at opcode 2.
LoopAssigns ==
    {None, Some(<< <<5, 0>>, <<3, 0>>, <<4, 0>>, <<8, 0>>, <<3, 3>> >>)}

\* Opcodes of a loop's body: exit tests, an addition, backward and forward
\* jumps, a switch, a nested header
LoopOps ==
    {[op |-> "JSLt", a |-> 1, b |-> 2, offset |-> 2],
     [op |-> "JSLt", a |-> 1, b |-> 2, offset |-> 3],
     [op |-> "Add", dst |-> 1, a |-> 1, b |-> 3],
     [op |-> "JAlways", offset |-> -4],
     [op |-> "JAlways", offset |-> -3],
     [op |-> "JAlways", offset |-> -2],
     [op |-> "JAlways", offset |-> 1],
     [op |-> "JAlways", offset |-> 2],
     [op |-> "Switch", reg |-> 1, offsets |-> <<1>>, end |-> 3],
     [op |-> "Label"]}

\* Label, a body, and the return of void.
LoopModule(c) ==
    \E assigns \in LoopAssigns :
        \E ops \in [1..MaxLoopOps -> LoopOps] :
            c = Module(LoopFn(assigns, <<[op |-> "Label"]>> \o ops \o <<[op |-> "Ret", ret |-> 4]>>),
                       Leaf)

\* Debug assigns of a function drawn for its calls: none; or the variables x
\* and y at opcodes 0 and 1.
CallAssigns == {None, Some(<< <<3, 1>>, <<4, 2>> >>)}

\* Allocations, calls on the allocated object, on this and on another
\* register, and field stores
CallOps ==
    {[op |-> "New", dst |-> 6],
     [op |-> "New", dst |-> 5],
     [op |-> "Int", dst |-> 1, ptr |-> 0],
     [op |-> "Call2", dst |-> 1, fun |-> 1, args |-> <<6, 1>>],
     [op |-> "Call1", dst |-> 1, fun |-> 2, args |-> <<0>>],
     [op |-> "CallN", dst |-> 1, fun |-> 1, args |-> <<6, 1>>],
     [op |-> "SetField", obj |-> 5, field |-> 0, src |-> 1],
     [op |-> "SetField", obj |-> 5, field |-> 1, src |-> 1],
     [op |-> "CallThis", dst |-> 1, field |-> 0, args |-> <<>>],
     [op |-> "CallThis", dst |-> 1, field |-> 1, args |-> <<>>]}

\* The function findex 1 names: one that returns void, a method that returns
\* an int.
Callees == {Leaf, Fn(1, "method", None, <<RetInt>>)}

\* A loop whose body is conditional jumps on r1, an argument of the function
\* or a register with no expression: each aims at the backward jump (an exit
\* test), skips one opcode, falls through to the next opcode (offset 0) or
\* jumps back to the Label.
ExitTests(m) ==
    [1..m -> {"JFalse", "JTrue"} \X {"exit", "skip", "next", "header"}]

ExitOps(m, tests) ==
    [j \in 1..m |-> [op |-> tests[j][1], cond |-> 1,
                     offset |-> CASE tests[j][2] = "exit" -> m + 1 - j
                                  [] tests[j][2] = "skip" -> 1
                                  [] tests[j][2] = "next" -> 0
                                  [] OTHER -> 0 - (j + 1)]]

\* Label, the tests, the backward jump to the Label and the return of void.
ExitModule(c) ==
    \E m \in 1..MaxExitOps : \E tests \in ExitTests(m) : \E shape \in {"static", "args"} :
        c = Module(Fn(0, shape, None,
                      <<[op |-> "Label"]>> \o ExitOps(m, tests)
                        \o <<[op |-> "JAlways", offset |-> 0 - (m + 2)], RetVoid>>),
                   Leaf)

\* A switch on r1 with two case targets, in order, out of order or equal, and
\* its segments: jumps over the next opcode, returns of r1 and loads.
SwitchHeads ==
    {[op |-> "Switch", reg |-> 1, offsets |-> offs, end |-> e] :
        offs \in {<<1, 2>>, <<2, 1>>, <<1, 1>>}, e \in {2, 3}}

SegmentOps ==
    {[op |-> "JAlways", offset |-> 1], RetInt, [op |-> "Int", dst |-> 1, ptr |-> 0]}

\* The Switch, its segments and the return of void.
SwitchModule(c) ==
    \E head \in SwitchHeads :
        \E m \in 1..MaxSwitchOps : \E ops \in [1..m -> SegmentOps] :
            c = Module(Fn(0, "static", None, <<head>> \o ops \o <<RetVoid>>), Leaf)

\* A method of the class, its calls, and the return of r1.
CallModule(c) ==
    \E assigns \in CallAssigns, callee \in Callees :
        \E m \in 1..MaxCallOps : \E ops \in [1..m -> CallOps] :
            c = Module(Fn(0, "method", assigns, ops \o <<RetInt>>), callee)

\* ------------------------------------------------------------------------
\* The run of decompile_code(code, f)
\* ------------------------------------------------------------------------

\* One call of decompile_code as a value: the function it was called on, its
\* nested invocations, and how it ended.
Run(fun, fs, st, pn, rs) ==
    [entry |-> fun, frames |-> fs, status |-> st, panic |-> pn, result |-> rs]

\* No second call.
Idle == Run(0, <<>>, "idle", "", <<>>)

\* No call of decompile_class.
NoClass == [status |-> "idle"]

Init ==
    /\ \/ ControlModule(code)
       \/ RegisterModule(code)
       \/ ClosureModule(code)
       \/ LoopModule(code)
       \/ CallModule(code)
       \/ ExitModule(code)
       \/ SwitchModule(code)
    /\ entry = 0
    /\ other = Idle
    /\ class = NoClass
    /\ frames = <<NewState(Unwrap(resolve_as_fn(0)))>>
    /\ status = "running"
    /\ panic = ""
    /\ result = <<>>

Top == frames[Len(frames)]

Cur == OpAt(Top.f, Top.i)

\* The loop `for (i, o) in f.ops.iter().enumerate()` is at an opcode of kinds.
Fetch(kinds) ==
    /\ status = "running"
    /\ Top.i < Len(Top.f.ops)
    /\ Cur.op \in kinds

\* The end of one iteration: state.scopes.advance() and the next position,
\* or the panic the handler raised.
EndOfIteration(h) ==
    IF h.err # "" THEN h ELSE [h EXCEPT !.scopes = advance(@), !.i = @ + 1]

Commit(h) ==
    /\ frames' = [frames EXCEPT ![Len(frames)] = EndOfIteration(h)]
    /\ status' = IF h.err # "" THEN "panicked" ELSE status
    /\ panic' = IF h.err # "" THEN h.err ELSE panic
    /\ UNCHANGED <<code, entry, result, other, class>>

OpCondJump == Fetch(CondJumps) /\ Commit(HandleCondJump(Top, Cur))

OpJAlways == Fetch({"JAlways"}) /\ Commit(HandleJAlways(Top, Cur))

OpSwitch == Fetch({"Switch"}) /\ Commit(HandleSwitch(Top, Cur))

OpLabel == Fetch({"Label"}) /\ Commit(HandleLabel(Top, Cur))

OpRet == Fetch({"Ret"}) /\ Commit(HandleRet(Top, Cur))

OpThrow == Fetch({"Throw", "Rethrow"}) /\ Commit(HandleThrow(Top, Cur))

OpTrap == Fetch({"Trap"}) /\ Commit(HandleTrap(Top, Cur))

OpEndTrap == Fetch({"EndTrap"}) /\ Commit(HandleEndTrap(Top, Cur))

OpConstant == Fetch({"Int", "Null"}) /\ Commit(HandleConstant(Top, Cur))

OpMov == Fetch({"Mov"}) /\ Commit(HandleMov(Top, Cur))

OpAdd == Fetch({"Add"}) /\ Commit(HandleAdd(Top, Cur))

OpGetGlobal == Fetch({"GetGlobal"}) /\ Commit(HandleGetGlobal(Top, Cur))

OpNew == Fetch({"New"}) /\ Commit(HandleNew(Top, Cur))

OpCall == Fetch({"Call1", "Call2", "Call3", "Call4"}) /\ Commit(HandleCall(Top, Cur))

OpCallN == Fetch({"CallN"}) /\ Commit(HandleCallN(Top, Cur))

OpCallThis == Fetch({"CallThis"}) /\ Commit(HandleCallThis(Top, Cur))

OpSetField == Fetch({"SetField"}) /\ Commit(HandleSetField(Top, Cur))

\* Opcodes the match has an arm for.
Handled ==
    CondJumps \cup {"JAlways", "Switch", "Label", "Ret", "Throw", "Rethrow", "Trap",
                    "EndTrap", "Int", "Null", "Mov", "Add", "GetGlobal", "New",
                    "Call1", "Call2", "Call3", "Call4", "CallN", "CallThis", "SetField",
                    "StaticClosure", "InstanceClosure"}

OpOther ==
    /\ status = "running"
    /\ Top.i < Len(Top.f.ops)
    /\ Cur.op \notin Handled
    /\ Commit(HandleOther(Top, Cur))

\* StaticClosure, and InstanceClosure on an Enum-typed capture, lift the
\* closure's function by a nested decompile_code.
LiftsClosure(s, o) ==
    \/ o.op = "StaticClosure"
    \/ (o.op = "InstanceClosure" /\ ResolveType(regtype(s.f, o.obj)).k = "Enum")

ClosureComment(o) == comment(<<"closure : ", display_id(o.fun)>>)

\* InstanceClosure on any other capture: a bound method
HandleBoundMethod(s, o) ==
    IF resolve_as_fn(o.fun) = None
    THEN Panic(PushStmt(s, ClosureComment(o)), "called Option::unwrap() on a None value")
    ELSE push_expr(PushStmt(s, ClosureComment(o)), s.i, o.dst,
                   Field(expr(s, o.obj),
                         IF Unwrap(resolve_as_fn(o.fun)).name = None THEN "_"
                         ELSE ResolveString(Unwrap(Unwrap(resolve_as_fn(o.fun)).name))))

OpBoundMethod ==
    /\ Fetch({"InstanceClosure"})
    /\ ~LiftsClosure(Top, Cur)
    /\ Commit(HandleBoundMethod(Top, Cur))

\* The comment is pushed, then decompile_code(code, fun.resolve_as_fn(code).unwrap())
\* starts on a state of its own.
OpClosureCall ==
    /\ Fetch({"StaticClosure", "InstanceClosure"})
    /\ LiftsClosure(Top, Cur)
    /\ Len(frames) < MaxDepth
    /\ IF resolve_as_fn(Cur.fun) = None
       THEN Commit(Panic(PushStmt(Top, ClosureComment(Cur)),
                         "called Option::unwrap() on a None value"))
       ELSE /\ frames' = Append([frames EXCEPT ![Len(frames)] = PushStmt(Top, ClosureComment(Cur))],
                                NewState(Unwrap(resolve_as_fn(Cur.fun))))
            /\ UNCHANGED <<code, entry, status, panic, result, other, class>>

\* post::IfExpressions: an if/else whose branches are one assignment each to the
\* same variable becomes one assignment of a conditional expression.
RECURSIVE PostVisit(_)
PostVisitStmt(st) ==
    CASE st.k = "If" ->
            LET then_ == PostVisit(st.stmts)
                else_ == IF st.else_ = None THEN None ELSE Some(PostVisit(Unwrap(st.else_)))
            IN  IF /\ else_ # None
                   /\ Len(then_) = 1 /\ Len(Unwrap(else_)) = 1
                   /\ then_[1].k = "Assign" /\ Unwrap(else_)[1].k = "Assign"
                   /\ then_[1].variable = Unwrap(else_)[1].variable
                THEN Assign(then_[1].declaration, then_[1].variable,
                            [k |-> "IfElse", cond |-> st.cond, a |-> then_[1].assign,
                             b |-> Unwrap(else_)[1].assign])
                ELSE StmtIf(st.cond, then_, else_)
      [] st.k \in {"While", "Try"} -> [st EXCEPT !.stmts = PostVisit(@)]
      [] st.k = "Switch" ->
            [st EXCEPT !.default = PostVisit(@),
                       !.cases = [c \in DOMAIN @ |-> [@[c] EXCEPT !.stmts = PostVisit(@)]]]
      [] OTHER -> st
PostVisit(stmts) == [j \in 1..Len(stmts) |-> PostVisitStmt(stmts[j])]

\* What decompile_code returns once the last opcode has been processed.
Returned(s) == PostVisit(statements(s.scopes))

\* A faulty return of the nested decompile_code: the names the body has seen
\* are added to the caller's.
OpClosureReturn_KeepsBodyNames ==
    /\ status = "running"
    /\ Len(frames) > 1
    /\ Top.i = Len(Top.f.ops)
    /\ LET caller == frames[Len(frames) - 1]
           o == OpAt(caller.f, caller.i)
       IN  frames' = Append(SubSeq(frames, 1, Len(frames) - 2),
                            EndOfIteration(push_expr([caller EXCEPT !.seen = @ \cup Top.seen],
                                                     caller.i, o.dst,
                                                     Closure(o.fun, Returned(Top)))))
    /\ UNCHANGED <<code, entry, status, panic, result, other, class>>

\* The nested decompile_code returns; the closure opcode's push_expr and the
\* iteration's advance follow in the caller.
OpClosureReturn ==
    /\ status = "running"
    /\ Len(frames) > 1
    /\ Top.i = Len(Top.f.ops)
    /\ LET caller == frames[Len(frames) - 1]
           o == OpAt(caller.f, caller.i)
       IN  frames' = Append(SubSeq(frames, 1, Len(frames) - 2),
                            EndOfIteration(push_expr(caller, caller.i, o.dst,
                                                     Closure(o.fun, Returned(Top)))))
    /\ UNCHANGED <<code, entry, status, panic, result, other, class>>

\* The outermost decompile_code returns its statements.
Finish ==
    /\ status = "running"
    /\ Len(frames) = 1
    /\ Top.i = Len(Top.f.ops)
    /\ status' = "done"
    /\ result' = Returned(Top)
    /\ UNCHANGED <<code, entry, frames, panic, other, class>>

Next ==
    \/ OpCondJump
    \/ OpJAlways
    \/ OpSwitch
    \/ OpLabel
    \/ OpRet
    \/ OpThrow
    \/ OpTrap
    \/ OpEndTrap
    \/ OpConstant
    \/ OpMov
    \/ OpAdd
    \/ OpGetGlobal
    \/ OpNew
    \/ OpCall
    \/ OpCallN
    \/ OpCallThis
    \/ OpSetField
    \/ OpBoundMethod
    \/ OpClosureCall
    \/ OpClosureReturn
    \/ OpOther
    \/ Finish

Spec == Init /\ [][Next]_vars

\* ------------------------------------------------------------------------
\* decompile_code as a function of the state, and two calls of it
\* ------------------------------------------------------------------------

\* The arm of the match for an opcode that starts no nested decompile_code.
Dispatch(s, o) ==
    CASE o.op \in CondJumps -> HandleCondJump(s, o)
      [] o.op = "JAlways" -> HandleJAlways(s, o)
      [] o.op = "Switch" -> HandleSwitch(s, o)
      [] o.op = "Label" -> HandleLabel(s, o)
      [] o.op = "Ret" -> HandleRet(s, o)
      [] o.op \in {"Throw", "Rethrow"} -> HandleThrow(s, o)
      [] o.op = "Trap" -> HandleTrap(s, o)
      [] o.op = "EndTrap" -> HandleEndTrap(s, o)
      [] o.op \in {"Int", "Null"} -> HandleConstant(s, o)
      [] o.op = "Mov" -> HandleMov(s, o)
      [] o.op = "Add" -> HandleAdd(s, o)
      [] o.op = "GetGlobal" -> HandleGetGlobal(s, o)
      [] o.op = "New" -> HandleNew(s, o)
      [] o.op \in {"Call1", "Call2", "Call3", "Call4"} -> HandleCall(s, o)
      [] o.op = "CallN" -> HandleCallN(s, o)
      [] o.op = "CallThis" -> HandleCallThis(s, o)
      [] o.op = "SetField" -> HandleSetField(s, o)
      [] o.op = "InstanceClosure" -> HandleBoundMethod(s, o)
      [] OTHER -> HandleOther(s, o)

\* The call r after the handler left its innermost state as h.
Ended(r, h) ==
    [r EXCEPT !.frames[Len(r.frames)] = EndOfIteration(h),
              !.status = IF h.err # "" THEN "panicked" ELSE @,
              !.panic = IF h.err # "" THEN h.err ELSE @]

\* One step of the call r: the next opcode of its innermost invocation, the
\* return of a nested invocation, or the return of the call.
StepRun(r) ==
    LET top == r.frames[Len(r.frames)]
    IN  IF r.status # "running" THEN r
        ELSE IF top.i = Len(top.f.ops)
        THEN IF Len(r.frames) = 1
             THEN [r EXCEPT !.status = "done", !.result = Returned(top)]
             ELSE LET caller == r.frames[Len(r.frames) - 1]
                      o == OpAt(caller.f, caller.i)
                  IN  [r EXCEPT !.frames =
                          Append(SubSeq(r.frames, 1, Len(r.frames) - 2),
                                 EndOfIteration(push_expr(caller, caller.i, o.dst,
                                                          Closure(o.fun, Returned(top)))))]
        ELSE LET o == OpAt(top.f, top.i)
             IN  IF o.op \in {"StaticClosure", "InstanceClosure"} /\ LiftsClosure(top, o)
                 THEN IF Len(r.frames) >= MaxDepth THEN r
                      ELSE IF resolve_as_fn(o.fun) = None
                      THEN Ended(r, Panic(PushStmt(top, ClosureComment(o)),
                                          "called Option::unwrap() on a None value"))
                      ELSE [r EXCEPT !.frames =
                              Append([r.frames EXCEPT ![Len(r.frames)] =
                                          PushStmt(top, ClosureComment(o))],
                                     NewState(Unwrap(resolve_as_fn(o.fun))))]
                 ELSE Ended(r, Dispatch(top, o))

\* The call r run to its end with nothing else running.
RECURSIVE RunToEnd(_)
RunToEnd(r) == IF StepRun(r) = r THEN r ELSE RunToEnd(StepRun(r))

\* decompile_code(code, fun) at its first opcode.
StartRun(fun) == Run(fun, <<NewState(Unwrap(resolve_as_fn(fun)))>>, "running", "", <<>>)

\* The first call, held in the variables.
Main == Run(entry, frames, status, panic, result)

\* Two calls over one context: the same function twice, or two functions.
PairModule(c) ==
    \E assigns \in AssignTables, body \in ClosureBodies :
        \E m \in 1..MaxPairOps : \E ops \in [1..m -> ClosureOps] :
            c = Module(Fn(0, "static", assigns, ops \o <<RetVoid>>),
                       Fn(1, "static", assigns, body))

InitPair ==
    /\ PairModule(code)
    /\ entry = 0
    /\ \E fun \in {0, 1} : other = StartRun(fun)
    /\ class = NoClass
    /\ frames = <<NewState(Unwrap(resolve_as_fn(0)))>>
    /\ status = "running"
    /\ panic = ""
    /\ result = <<>>

\* The calls are stepped in any order.
StepFirst ==
    /\ StepRun(Main) # Main
    /\ frames' = StepRun(Main).frames
    /\ status' = StepRun(Main).status
    /\ panic' = StepRun(Main).panic
    /\ result' = StepRun(Main).result
    /\ UNCHANGED <<code, entry, other, class>>

StepSecond ==
    /\ StepRun(other) # other
    /\ other' = StepRun(other)
    /\ UNCHANGED <<code, entry, frames, status, panic, result, class>>

NextPair ==
    \/ StepFirst
    \/ StepSecond

SpecPair == InitPair /\ [][NextPair]_vars

\* ------------------------------------------------------------------------
\* decompile_class(code, obj)
\* ------------------------------------------------------------------------

\* RefString::display
DisplayString(s) == ResolveString(s)

\* TypeObj::get_static_type: the object type of global (global - 1), when
\* global is not 0
get_static_type(obj) ==
    IF obj.global > 0 THEN resolve_as_obj(code.globals[obj.global]) ELSE None

ClassField(name, static_, t) == [name |-> name, static_ |-> static_, ty |-> t]

Method(fun, static_, dynamic, stmts) ==
    [fun |-> fun, static_ |-> static_, dynamic |-> dynamic, statements |-> stmts]

\* A faulty key: the field's index among the type's own fields.
BindingKey_OwnIndex(t, i) == i

\* RefField(i + fields.len() - own_fields.len()): the key under which
\* bindings holds the i-th own field
BindingKey(t, i) == i + Len(t.fields) - Len(t.own_fields)

\* One iteration of a loop over own_fields: the field is skipped when it is
\* bound and pushed otherwise.
PushField(fields, t, i, static_) ==
    IF BindingKey(t, i) \in DOMAIN t.bindings
    THEN fields
    ELSE Append(fields, ClassField(DisplayString(t.own_fields[i + 1].name), static_,
                                   t.own_fields[i + 1].t))

\* The class type, its parent and its static counterpart: types 2, 4 and 3.
\* The class declares the first own of the fields x, y, a, f after the
\* inherited ones; bindings holds bound for the keys of keys.
ClassType(name, super_, global, inherited, own, keys, bound, protos) ==
    LET names == <<3, 4, 5, 8>>
        mine == [j \in 1..own |-> [name |-> names[j], t |-> 1]]
    IN  [k |-> "Obj", name |-> name, super_ |-> super_, global |-> global,
         own_fields |-> mine,
         protos |-> protos,
         bindings |-> [key \in keys |-> bound],
         fields |-> inherited \o mine]

ParentFields == <<[name |-> 6, t |-> 1]>>

\* The contexts decompile_class is run on: a class with or without a parent,
\* with no global, with the global of its static counterpart or with the
\* global of an int.
ClassModule(c) ==
    \E own \in 0..MaxOwnFields, keys \in SUBSET (0..MaxOwnFields), bound \in {1, 2} :
    \E hasParent \in BOOLEAN, global \in 0..2, hasProto \in BOOLEAN :
    \E sown \in 0..2, skeys \in SUBSET (0..1) :
        /\ global # 1 => (sown = 0 /\ skeys = {})
        /\ c = [Module(Leaf, Leaf) EXCEPT
                 !.globals = <<3, 1>>,
                 !.types = [t \in 0..13 |->
                    CASE t = 2 -> ClassType(7, IF hasParent THEN Some(4) ELSE None, global,
                                            IF hasParent THEN ParentFields ELSE <<>>,
                                            own, keys, bound,
                                            IF hasProto
                                            THEN <<[name |-> 8, findex |-> 1, pindex |-> 0]>>
                                            ELSE <<>>)
                      [] t = 3 -> ClassType(6, None, 0, <<>>, sown, skeys, 0, <<>>)
                      [] t = 4 -> ClassType(5, None, 0, <<>>, 1, {}, 0, <<>>)
                      [] OTHER -> TypePool[t]]]

\* decompile_class(code, obj) before its first loop: no field and no method
\* yet; fi, si and pi count the iterations of the loops over own_fields, over
\* the static own_fields and over protos; left and sleft are the bindings the
\* loops over bindings.values() have not visited.
StartClass(t) ==
    LET obj == ResolveType(t)
    IN  [status |-> "running", obj |-> t, static_type |-> get_static_type(obj),
         fields |-> <<>>, methods |-> <<>>, fi |-> 0, si |-> 0, pi |-> 0,
         left |-> DOMAIN obj.bindings,
         sleft |-> IF get_static_type(obj) = None THEN {}
                   ELSE DOMAIN Unwrap(get_static_type(obj)).bindings,
         panic |-> ""]

InitClass ==
    /\ ClassModule(code)
    /\ class = StartClass(2)
    /\ entry = 0
    /\ other = Idle
    /\ frames = <<>>
    /\ status = "idle"
    /\ panic = ""
    /\ result = <<>>

ClassObj == ResolveType(class.obj)

\* The loop over obj.own_fields
ClassInstanceField ==
    /\ class.status = "running"
    /\ class.fi < Len(ClassObj.own_fields)
    /\ class' = [class EXCEPT !.fields = PushField(@, ClassObj, class.fi, FALSE),
                              !.fi = @ + 1]
    /\ UNCHANGED <<code, entry, frames, status, panic, result, other>>

\* The loop over the static type's own_fields
ClassStaticField ==
    /\ class.status = "running"
    /\ class.fi = Len(ClassObj.own_fields)
    /\ class.static_type # None
    /\ class.si < Len(Unwrap(class.static_type).own_fields)
    /\ class' = [class EXCEPT !.fields = PushField(@, Unwrap(class.static_type), class.si, TRUE),
                              !.si = @ + 1]
    /\ UNCHANGED <<code, entry, frames, status, panic, result, other>>

FieldsListed ==
    /\ class.status = "running"
    /\ class.fi = Len(ClassObj.own_fields)
    /\ class.static_type # None => class.si = Len(Unwrap(class.static_type).own_fields)

\* Method { .., statements: decompile_code(code, fun.resolve_as_fn(code).unwrap()) }
PushMethod(c, fun, static_, dynamic) ==
    IF resolve_as_fn(fun) = None
    THEN [c EXCEPT !.status = "panicked", !.panic = "called Option::unwrap() on a None value"]
    ELSE LET run == RunToEnd(StartRun(fun))
         IN  IF run.status = "done"
             THEN [c EXCEPT !.methods = Append(@, Method(fun, static_, dynamic, run.result))]
             ELSE [c EXCEPT !.status = "panicked", !.panic = run.panic]

\* The loop over obj.bindings.values(), in the order the HashMap yields them
ClassBoundMethod ==
    /\ FieldsListed
    /\ \E key \in class.left :
        class' = [PushMethod(class, ClassObj.bindings[key], FALSE, TRUE)
                    EXCEPT !.left = @ \ {key}]
    /\ UNCHANGED <<code, entry, frames, status, panic, result, other>>

\* The loop over the static type's bindings.values()
ClassStaticMethod ==
    /\ FieldsListed
    /\ class.left = {}
    /\ \E key \in class.sleft :
        class' = [PushMethod(class, Unwrap(class.static_type).bindings[key], TRUE, FALSE)
                    EXCEPT !.sleft = @ \ {key}]
    /\ UNCHANGED <<code, entry, frames, status, panic, result, other>>

\* The loop over obj.protos
ClassProto ==
    /\ FieldsListed
    /\ class.left = {} /\ class.sleft = {}
    /\ class.pi < Len(ClassObj.protos)
    /\ class' = [PushMethod(class, ClassObj.protos[class.pi + 1].findex, FALSE, FALSE)
                    EXCEPT !.pi = @ + 1]
    /\ UNCHANGED <<code, entry, frames, status, panic, result, other>>

\* Class { name, parent, fields, methods }
ClassReturn ==
    /\ FieldsListed
    /\ class.left = {} /\ class.sleft = {}
    /\ class.pi = Len(ClassObj.protos)
    /\ class' = [class EXCEPT !.status = "done"]
    /\ UNCHANGED <<code, entry, frames, status, panic, result, other>>

NextClass ==
    \/ ClassInstanceField
    \/ ClassStaticField
    \/ ClassBoundMethod
    \/ ClassStaticMethod
    \/ ClassProto
    \/ ClassReturn

SpecClass == InitClass /\ [][NextClass]_vars

\* ------------------------------------------------------------------------
\* Conditional jumps on constant operands: the recorded condition against
\* the jump's own test
\* ------------------------------------------------------------------------

\* Opcode::display of a conditional jump, "if {lhs} {sym} {rhs} jump to ..":
\* the registers or literal compared and the comparison sign.
DisplayTest(o) ==
    LET reg(r) == [lit |-> "reg", reg |-> r]
        word(w) == [lit |-> w, reg |-> 0]
    IN  CASE o.op = "JTrue" -> [lhs |-> o.cond, sym |-> "==", rhs |-> word("true")]
          [] o.op = "JFalse" -> [lhs |-> o.cond, sym |-> "==", rhs |-> word("false")]
          [] o.op = "JNull" -> [lhs |-> o.reg, sym |-> "==", rhs |-> word("null")]
          [] o.op = "JNotNull" -> [lhs |-> o.reg, sym |-> "!=", rhs |-> word("null")]
          [] o.op \in {"JSLt", "JULt"} -> [lhs |-> o.a, sym |-> "<", rhs |-> reg(o.b)]
          [] o.op \in {"JSGte", "JUGte"} -> [lhs |-> o.a, sym |-> ">=", rhs |-> reg(o.b)]
          [] o.op = "JSGt" -> [lhs |-> o.a, sym |-> ">", rhs |-> reg(o.b)]
          [] o.op = "JSLte" -> [lhs |-> o.a, sym |-> "<=", rhs |-> reg(o.b)]
          [] o.op = "JEq" -> [lhs |-> o.a, sym |-> "==", rhs |-> reg(o.b)]
          [] OTHER -> [lhs |-> o.a, sym |-> "!=", rhs |-> reg(o.b)]

\* Runtime values of a register: integers, finite floats, the float NaN,
\* booleans, null and a non-null reference.
IntValues == {[t |-> "int", v |-> n] : n \in (0 - MaxOperand)..MaxOperand}

FloatValues ==
    {[t |-> "float", v |-> n] : n \in (0 - MaxOperand)..MaxOperand} \cup {[t |-> "nan", v |-> 0]}

BoolValues == {[t |-> "bool", v |-> b] : b \in BOOLEAN}

RefValues == {[t |-> "null", v |-> 0], [t |-> "ref", v |-> 0]}

\* The literal expression that loads a value into a register.
Literal(x) ==
    CASE x.t = "int" -> cst_int(x.v)
      [] x.t \in {"float", "nan"} -> cst_float(x)
      [] x.t = "bool" -> cst_bool(x.v)
      [] x.t = "null" -> cst_null
      [] OTHER -> cst_this

\* The value of a literal expression.
ValueOf(e) ==
    CASE e.k = "Int" -> [t |-> "int", v |-> e.v]
      [] e.k = "Float" -> e.v
      [] e.k = "Bool" -> [t |-> "bool", v |-> e.v]
      [] e.k = "Null" -> [t |-> "null", v |-> 0]
      [] OTHER -> [t |-> "ref", v |-> 0]

\* Comparison of two values; every comparison with NaN is false except !=.
Less(x, y) == x.t # "nan" /\ y.t # "nan" /\ x.v < y.v

Equal(x, y) == x.t # "nan" /\ y.t # "nan" /\ x = y

Compare(sym, x, y) ==
    CASE sym \in {"<", "lt"} -> Less(x, y)
      [] sym \in {"<=", "lte"} -> Less(x, y) \/ Equal(x, y)
      [] sym \in {">", "gt"} -> Less(y, x)
      [] sym \in {">=", "gte"} -> Less(y, x) \/ Equal(x, y)
      [] sym \in {"==", "eq"} -> Equal(x, y)
      [] OTHER -> ~Equal(x, y)

\* Truth of a condition expression over literals.
Truth(e) ==
    CASE e.k = "Bool" -> e.v
      [] e.k = "UnOp" -> ~e.e.v
      [] OTHER -> Compare(e.kind, ValueOf(e.a), ValueOf(e.b))

\* Whether the jump's displayed test holds in register state regs.
TestHolds(o, regs) ==
    LET t == DisplayTest(o)
        rhs == CASE t.rhs.lit = "true" -> [t |-> "bool", v |-> TRUE]
                 [] t.rhs.lit = "false" -> [t |-> "bool", v |-> FALSE]
                 [] t.rhs.lit = "null" -> [t |-> "null", v |-> 0]
                 [] OTHER -> ValueOf(regs[t.rhs.reg])
    IN  Compare(t.sym, ValueOf(regs[t.lhs]), rhs)

\* A conditional jump over one opcode, with its operands in r1 and r3.
JumpOp(op) ==
    CASE op \in {"JTrue", "JFalse"} -> [op |-> op, cond |-> 1, offset |-> 1]
      [] op \in {"JNull", "JNotNull"} -> [op |-> op, reg |-> 1, offset |-> 1]
      [] OTHER -> [op |-> op, a |-> 1, b |-> 3, offset |-> 1]

\* The operand values a jump can meet: booleans for JTrue/JFalse, references
\* for the null tests, two integers for the unsigned comparisons, two integers
\* or two floats for the others.
Operands(op) ==
    CASE op \in {"JTrue", "JFalse"} -> BoolValues \X BoolValues
      [] op \in {"JNull", "JNotNull"} -> RefValues \X RefValues
      [] op \in {"JULt", "JUGte"} -> IntValues \X IntValues
      [] OTHER -> (IntValues \X IntValues) \cup (FloatValues \X FloatValues)

\* The decompiler is about to handle a conditional jump whose operand
\* registers were loaded with literals (no debug names).
InitJump ==
    /\ \E op \in CondJumps : \E xy \in Operands(op) :
          /\ code = Module(Fn(0, "static", None, <<JumpOp(op), RetVoid, RetVoid>>), Leaf)
          /\ frames = <<[NewState(Unwrap(resolve_as_fn(0)))
                           EXCEPT !.reg_state = Insert(Insert(@, 1, Literal(xy[1])),
                                                       3, Literal(xy[2])),
                                  !.stored = {1, 3}]>>
    /\ entry = 0
    /\ other = Idle
    /\ class = NoClass
    /\ status = "running"
    /\ panic = ""
    /\ result = <<>>

NextJump == OpCondJump

SpecJump == InitJump /\ [][NextJump]_vars

\* ------------------------------------------------------------------------
\* Anonymous structures: allocations and field stores, in both builds
\* ------------------------------------------------------------------------

\* Register types of a function drawn for its structures: as RegTypes, and r7
\* a structure with no field.
StructRegTypes == RegTypes \o <<8>>

\* Allocations of the structure r5, of the empty structure r7 and of the
\* object r6; stores to r5, to this and to r7; a load.
StructOps ==
    {[op |-> "New", dst |-> 5],
     [op |-> "New", dst |-> 7],
     [op |-> "New", dst |-> 6],
     [op |-> "SetField", obj |-> 5, field |-> 0, src |-> 1],
     [op |-> "SetField", obj |-> 5, field |-> 1, src |-> 1],
     [op |-> "SetField", obj |-> 0, field |-> 0, src |-> 1],
     [op |-> "SetField", obj |-> 7, field |-> 0, src |-> 1],
     [op |-> "Int", dst |-> 1, ptr |-> 0]}

\* A method, its allocations and stores, and the return of r1, lifted by a
\* build with or without overflow checks.
StructModule(c) ==
    \E assigns \in CallAssigns, checks \in BOOLEAN :
        \E m \in 1..MaxStructOps : \E ops \in [1..m -> StructOps] :
            c = [Module([Fn(0, "method", assigns, ops \o <<RetInt>>)
                            EXCEPT !.regs = StructRegTypes], Leaf)
                    EXCEPT !.overflow_checks = checks]

InitStruct ==
    /\ StructModule(code)
    /\ entry = 0
    /\ other = Idle
    /\ class = NoClass
    /\ frames = <<NewState(Unwrap(resolve_as_fn(0)))>>
    /\ status = "running"
    /\ panic = ""
    /\ result = <<>>

NextStruct ==
    \/ OpNew
    \/ OpSetField
    \/ OpConstant
    \/ OpRet
    \/ Finish

SpecStruct == InitStruct /\ [][NextStruct]_vars

\* ---------------------------------------------------------------------------
\* Type::display (hlbc/src/fmt.rs): the walk over a type pool, one frame per
\* call of display_rec.  A type's identity on the trail is the address of its
\* pool slot, modelled as its index.  Text is a sequence of tokens.
\* ---------------------------------------------------------------------------

MaxPool == 2

\* The deepest call stack a trail without repeats allows: one frame per pool
\* type and the frame that answers "Self".  The guard of DisplayMember stops
\* one frame later.
MaxTrail == MaxPool + 1

TypeRefs == 0..(MaxPool - 1)

\* The types of a pool slot: two without members, and every variant that
\* displays members, its members drawn from the pool.
PoolTypes ==
    {[k |-> "I32"], [k |-> "Obj", name |-> "O"]}
    \cup {[k |-> kind, inner |-> t] : kind \in {"Ref", "Null", "Packed"}, t \in TypeRefs}
    \cup {[k |-> kind, args |-> <<a>>, ret |-> (a + 1) % MaxPool] :
            kind \in {"Fun", "Method"}, a \in TypeRefs}
    \cup {[k |-> "Virtual", fields |-> <<[name |-> "f", t |-> t]>>] : t \in TypeRefs}
    \cup {[k |-> "Struct", name |-> "S", fields |-> <<[name |-> "f", t |-> t]>>] :
            t \in TypeRefs}

\* The types display_rec is called on for the members of self, in call order.
Members(self) ==
    CASE self.k \in {"Fun", "Method"} -> Append(self.args, self.ret)
      [] self.k \in {"Ref", "Null", "Packed"} -> <<self.inner>>
      [] self.k \in {"Virtual", "Struct"} -> [j \in 1..Len(self.fields) |-> self.fields[j].t]
      [] OTHER -> <<>>

\* The trail check of display_rec dropped: a type on the trail is displayed again.
display_rec_NoTrail(t, parents) ==
    [ty |-> t, parents |-> Append(parents, t), self |-> FALSE,
     todo |-> Members(ResolveType(t)), parts |-> <<>>]

\* Type::display_rec up to its match: the frame of a call on type t with the
\* trail it was handed.
display_rec(t, parents) ==
    IF \E j \in 1..Len(parents) : parents[j] = t
    THEN [ty |-> t, parents |-> parents, self |-> TRUE, todo |-> <<>>, parts |-> <<>>]
    ELSE [ty |-> t, parents |-> Append(parents, t), self |-> FALSE,
          todo |-> Members(ResolveType(t)), parts |-> <<>>]

RECURSIVE JoinParts(_, _)
\* Vec<String>::join(", "), each part after a prefix.
JoinParts(parts, prefix) ==
    IF parts = <<>> THEN <<>>
    ELSE prefix \o Head(parts)
         \o (IF Len(parts) > 1 THEN <<", ">> ELSE <<>>)
         \o JoinParts(Tail(parts), prefix)

\* The match of display_rec, once the members' texts are there.
DisplayText(fr) ==
    LET this == ResolveType(fr.ty)
    IN  IF fr.self THEN <<"Self">>
        ELSE CASE this.k = "I32" -> <<"i32">>
               [] this.k = "Obj" -> <<this.name>>
               [] this.k \in {"Fun", "Method"} ->
                    <<"(">> \o JoinParts(Front(fr.parts), <<>>) \o <<") -> (">>
                    \o Last(fr.parts) \o <<")">>
               [] this.k = "Ref" -> <<"ref<">> \o fr.parts[1] \o <<">">>
               [] this.k = "Null" -> <<"null<">> \o fr.parts[1] \o <<">">>
               [] this.k = "Packed" -> <<"packed<">> \o fr.parts[1] \o <<">">>
               [] this.k = "Virtual" ->
                    <<"virtual<">> \o JoinParts(fr.parts, <<"f", ": ">>) \o <<">">>
               [] this.k = "Struct" ->
                    <<this.name, "<">> \o JoinParts(fr.parts, <<"f", ": ">>) \o <<">">>

\* A call of display_rec on the next member, with a copy of the caller's trail.
DisplayMember ==
    /\ status = "running"
    /\ frames # <<>>
    /\ Last(frames).todo # <<>>
    /\ Len(frames) <= MaxTrail
    /\ frames' = Append(frames, display_rec(Head(Last(frames).todo), Last(frames).parents))
    /\ UNCHANGED <<code, entry, status, panic, result, other, class>>

\* A call of display_rec returns its text to the caller; the outermost call
\* returns it from Type::display.
DisplayReturn ==
    /\ status = "running"
    /\ frames # <<>>
    /\ Last(frames).todo = <<>>
    /\ LET text == DisplayText(Last(frames))
       IN  IF Len(frames) = 1
           THEN /\ frames' = <<>>
                /\ result' = text
                /\ status' = "done"
           ELSE /\ frames' = Append(Front(Front(frames)),
                                    [frames[Len(frames) - 1]
                                       EXCEPT !.todo = Tail(@),
                                              !.parts = Append(@, text)])
                /\ UNCHANGED <<result, status>>
    /\ UNCHANGED <<code, entry, panic, other, class>>

\* Type::display of one type of a pool: display_rec with an empty trail.
InitDisplay ==
    /\ code \in [types : [TypeRefs -> PoolTypes]]
    /\ entry \in TypeRefs
    /\ frames = <<display_rec(entry, <<>>)>>
    /\ other = Idle
    /\ class = NoClass
    /\ status = "running"
    /\ panic = ""
    /\ result = <<>>

NextDisplay == DisplayMember \/ DisplayReturn

\* The walk is one sequential computation: a call that can step, steps.
SpecDisplay == InitDisplay /\ [][NextDisplay]_vars /\ WF_vars(NextDisplay)

\* Every step of a single call is the step StepRun computes.
StepIsStepRun == [][Main' = StepRun(Main)]_vars

\* ------------------------------------------------------------------------
\* Properties
\* ------------------------------------------------------------------------

Frames == 1..Len(frames)

\* An Assign to a named variable, as push_expr emits it.
IsNamedAssign(st) ==
    st.k = "Assign" /\ st.variable.k = "Variable" /\ st.variable.name # None

\* Names declared by the statements emitted so far in one run.
Declared(s) ==
    {Unwrap(s.emitted[j].variable.name) :
        j \in {x \in 1..Len(s.emitted) : IsNamedAssign(s.emitted[x]) /\ s.emitted[x].declaration}}

\* C1: among the statements one run of decompile_code has emitted, once an
\* Assign with declaration=true names a variable, every later Assign to that
\* name has declaration=false; so each name is declared at most once.
C1_DeclaredOnce ==
    \A n \in Frames :
        \A j, k \in 1..Len(frames[n].emitted) :
            LET a == frames[n].emitted[j]
                b == frames[n].emitted[k]
            IN  (/\ j < k
                 /\ IsNamedAssign(a) /\ IsNamedAssign(b)
                 /\ a.declaration
                 /\ a.variable.name = b.variable.name)
                => ~b.declaration

\* A run has declared a name and assigned it again without declaring it.
C1_Witness ==
    \E n \in Frames :
        \E j, k \in 1..Len(frames[n].emitted) :
            LET a == frames[n].emitted[j]
                b == frames[n].emitted[k]
            IN  /\ j < k
                /\ IsNamedAssign(a) /\ IsNamedAssign(b)
                /\ a.declaration /\ ~b.declaration
                /\ a.variable.name = b.variable.name

\* Scopes pushed, folded and still open above the root, in one run.
Open(s) == Len(s.scopes.scopes) - 1

\* C2: when the last opcode has been processed every scope pushed has been
\* folded, so the pushes equal the folds and only the root scope is left.
C2_AllScopesFolded ==
    status = "done" =>
        /\ Open(Top) = 0
        /\ Top.scopes.opened = Len(Top.scopes.folds)

\* C3: in every state of a lift the scope stack holds at least one scope, its
\* bottom scope is the root, and no scope above it is a root.
C3_RootStays ==
    \A n \in Frames :
        /\ Len(frames[n].scopes.scopes) >= 1
        /\ frames[n].scopes.scopes[1].ty = "Root"
        /\ \A j \in 2..Len(frames[n].scopes.scopes) : frames[n].scopes.scopes[j].ty # "Root"

\* Scopes have been folded by advance and by end_last_loop and the root is
\* the only scope left.
C3_Witness ==
    /\ Open(Top) = 0
    /\ \E j, k \in 1..Len(Top.scopes.folds) :
        Top.scopes.folds[j].ty = "Loop" /\ Top.scopes.folds[k].ty \in {"If", "Else", "Switch", "Try"}

\* Registers some opcode before position i names as its destination.
WrittenBefore(s) ==
    {OpAt(s.f, p).dst : p \in {q \in 0..(s.i - 1) : "dst" \in DOMAIN OpAt(s.f, q)}}

HasThis(f) ==
    \/ f.parent # None
    \/ (f.name # None /\ code.strings[Unwrap(f.name) + 1] = "__constructor__")

\* C5: while a method or a constructor is lifted, register 0 reads as This.
C5_Reg0IsThis ==
    \A n \in Frames :
        HasThis(frames[n].f) => expr(frames[n], 0) = cst_this

\* Argument names DecompilerState::new finds in the debug table.
ArgNames(f) ==
    {Unwrap(arg_name(f, p)) :
        p \in {q \in 0..(Len(ty(f).args) - ArgStart(f) - 1) : arg_name(f, q) # None}}

\* C6, as stated: a name is in the seen set exactly when an Assign with
\* declaration=true for it has been emitted.
C6_SeenIffDeclared ==
    \A n \in Frames : frames[n].seen = Declared(frames[n])

\* C6, amended: the seen set holds the argument names found at creation and
\* the names a declaring Assign has been emitted for, and nothing else; an
\* argument name is never declared.
C6_SeenIsArgsAndDeclared ==
    \A n \in Frames :
        /\ frames[n].seen = ArgNames(frames[n].f) \cup Declared(frames[n])
        /\ ArgNames(frames[n].f) \cap Declared(frames[n]) = {}

\* The seen set holds an argument's name and a declared name, and the
\* argument's name has been assigned without a declaration.
C6_Witness ==
    \E n \in Frames :
        /\ ArgNames(frames[n].f) # {}
        /\ Declared(frames[n]) # {}
        /\ \E j \in 1..Len(frames[n].emitted) :
            /\ IsNamedAssign(frames[n].emitted[j])
            /\ Unwrap(frames[n].emitted[j].variable.name) \in ArgNames(frames[n].f)

ScopeViolations ==
    {"Backward jump but we aren't in a loop ?",
     "Last scope is not a loop !",
     "no matching offset for switch case"}

\* C7: a lift aborts only on one of the three scope-stack violations; any
\* other failure is kept inline and the statements are still returned.
C7_AbortsOnlyOnScopes ==
    status = "panicked" => panic \in ScopeViolations

\* The scope kinds on the stack of a run, bottom first.
Kinds(s) == [j \in 1..Len(s.scopes.scopes) |-> s.scopes.scopes[j].ty]

InLoop(s) == \E j \in 1..Len(s.scopes.scopes) : Kinds(s)[j] = "Loop"

\* The run is at a JAlways that violates the scope stack.
NoLoopViolation ==
    Cur.offset < 0 /\ ~InLoop(Top)

NotALoopViolation ==
    /\ Cur.offset < 0
    /\ InLoop(Top)
    /\ Kinds(Top)[Len(Kinds(Top))] # "Loop"
    /\ \A j \in (Top.i + 1)..(Len(Top.f.ops) - 1) :
        ~(/\ OpAt(Top.f, j).op = "JAlways"
          /\ j + OpAt(Top.f, j).offset + 1 =
                Top.scopes.scopes[CHOOSE x \in 1..Len(Kinds(Top)) :
                    /\ Kinds(Top)[x] = "Loop"
                    /\ \A y \in (x + 1)..Len(Kinds(Top)) : Kinds(Top)[y] # "Loop"].start)

NoCaseViolation ==
    /\ Cur.offset >= 0
    /\ Kinds(Top)[Len(Kinds(Top))] = "Switch"
    /\ \A p \in 1..Len(LastScope(Top.scopes).offsets) : LastScope(Top.scopes).offsets[p] # Top.i

\* C8: a backward JAlways with no loop open, a final backward JAlways whose
\* innermost scope is not a loop, and a forward JAlways inside a switch at a
\* position that is no case offset each abort the lift with their message, and
\* no statement list is returned.
C8_ViolationsAbort ==
    [][(status = "running" /\ Top.i < Len(Top.f.ops) /\ Cur.op = "JAlways")
        => /\ NoLoopViolation =>
                (status' = "panicked" /\ result' = <<>>
                 /\ panic' = "Backward jump but we aren't in a loop ?")
           /\ NotALoopViolation =>
                (status' = "panicked" /\ result' = <<>>
                 /\ panic' = "Last scope is not a loop !")
           /\ NoCaseViolation =>
                (status' = "panicked" /\ result' = <<>>
                 /\ panic' = "no matching offset for switch case")]_vars

\* A lift has aborted at a final backward jump that a try scope encloses.
C8_Witness ==
    /\ status = "panicked"
    /\ panic = "Last scope is not a loop !"
    /\ result = <<>>
    /\ Cur.op = "JAlways"
    /\ LastScope(Top.scopes).ty = "Try"

\* Opcodes of the bytecodes drawn that the match has no arm for.
Unhandled == {"NullCheck", "JNotLt"}

\* C9: an opcode with no handler, and EndTrap, leave the register state, the
\* seen set, the expression contexts and the statements as they are; the
\* iteration only advances the scope cursor.
C9_UnhandledIsSkipped ==
    [][(status = "running" /\ Top.i < Len(Top.f.ops) /\ Cur.op \in Unhandled \cup {"EndTrap"})
        => /\ status' = "running"
           /\ Len(frames') = Len(frames)
           /\ frames'[Len(frames)].reg_state = Top.reg_state
           /\ frames'[Len(frames)].seen = Top.seen
           /\ frames'[Len(frames)].expr_ctx = Top.expr_ctx
           /\ frames'[Len(frames)].emitted = Top.emitted
           /\ frames'[Len(frames)].scopes = advance(Top.scopes)
           /\ frames'[Len(frames)].i = Top.i + 1]_vars

\* An opcode with no handler has been passed while a scope was open, and the
\* advance after it folded that scope.
C9_Witness ==
    /\ status = "running"
    /\ Top.i > 0
    /\ OpAt(Top.f, Top.i - 1).op \in Unhandled
    /\ \E j \in 1..Len(Top.scopes.folds) : Top.scopes.folds[j].at = Top.i

\* C10: the nested lifts of closures never go deeper than the functions of
\* the module can nest, also when a closure opcode names the function that is
\* being lifted.
C10_RecursionBounded ==
    Len(frames) <= Len(code.functions)

\* How far a call has come: the position of each of its invocations.
Progress(r) == [j \in 1..Len(r.frames) |-> r.frames[j].i]

LoopSeed(offset) ==
    <<[op |-> "Label"],
      [op |-> "JSLt", a |-> 1, b |-> 2, offset |-> offset],
      [op |-> "Add", dst |-> 1, a |-> 1, b |-> 3],
      [op |-> "JAlways", offset |-> -4],
      [op |-> "Ret", ret |-> 4]>>

\* The function the first call lifts, and what a register reads as at its
\* first opcode.
EntryFn == Unwrap(resolve_as_fn(entry))

AtEntry(reg) == expr(NewState(EntryFn), reg)

\* C13, as stated: the sequence with offset=+3 lifts to one While whose
\* condition is r1 < r2 and whose body is the assignment of r1 + r3.
C13_SeedLiftsToWhile ==
    (EntryFn.ops = LoopSeed(3) /\ status # "running") =>
        /\ status = "done"
        /\ Len(result) = 1
        /\ result[1].k = "While"
        /\ result[1].cond = BinOp("lt", AtEntry(1), AtEntry(2))
        /\ Len(result[1].stmts) = 1
        /\ result[1].stmts[1].k = "Assign"
        /\ result[1].stmts[1].assign = add(AtEntry(1), AtEntry(3))

\* C13, amended: with offset=+2 the sequence lifts to exactly one statement, a
\* While whose condition is r2 <= r1 and whose body is the assignment of
\* r1 + r3 under the Add's debug name (an empty body when the Add has none);
\* with offset=+3 the lift aborts at the backward jump.
C13_SeedWithOffsetTwo ==
    /\ (EntryFn.ops = LoopSeed(2) /\ status # "running") =>
        /\ status = "done"
        /\ result =
            <<StmtWhile(BinOp("lte", AtEntry(2), AtEntry(1)),
                        IF var_name(EntryFn, 2) = None THEN <<>>
                        ELSE <<Assign(Unwrap(var_name(EntryFn, 2)) \notin NewState(EntryFn).seen,
                                      Variable(1, var_name(EntryFn, 2)),
                                      add(AtEntry(1), AtEntry(3)))>>)>>
    /\ (EntryFn.ops = LoopSeed(3) /\ status # "running") =>
        /\ status = "panicked"
        /\ panic = "Last scope is not a loop !"

\* The sequence with offset=+2 and a debug name for the Add has been lifted to
\* a While with one statement in its body.
C13_Witness ==
    /\ EntryFn.ops = LoopSeed(2)
    /\ var_name(EntryFn, 2) # None
    /\ status = "done"
    /\ Len(result) = 1
    /\ result[1].k = "While"
    /\ Len(result[1].stmts) = 1

\* What C14 says a Ret at the current position emits.
RetEmits ==
    LET void == ResolveType(regtype(Top.f, Cur.ret)).k = "Void"
    IN  IF Len(Top.scopes.scopes) > 1
        THEN <<Return(IF void THEN None ELSE Some(expr(Top, Cur.ret)))>>
        ELSE IF void THEN <<>> ELSE <<Return(Some(expr(Top, Cur.ret)))>>

AtRet == status = "running" /\ Top.i < Len(Top.f.ops) /\ Cur.op = "Ret"

\* C14: a Ret with a non-root scope open emits Return(None) for a void
\* register and Return(Some(expr(ret))) otherwise; with only the root scope
\* open it emits Return(Some(expr(ret))) for a non-void register and nothing
\* for a void one; it emits nothing else and does not abort.  A function whose
\* only opcode is a Ret of a void register lifts to the empty statement list.
C14_RetEmits ==
    /\ [][AtRet =>
            /\ Len(frames') = Len(frames)
            /\ status' = "running"
            /\ frames'[Len(frames)].emitted = Top.emitted \o RetEmits
            /\ frames'[Len(frames)].i = Top.i + 1]_vars
    /\ []((Len(EntryFn.ops) = 1 /\ EntryFn.ops[1].op = "Ret"
            /\ ResolveType(regtype(EntryFn, EntryFn.ops[1].ret)).k = "Void"
            /\ status # "running")
           => (status = "done" /\ result = <<>>))

\* A Ret of a void register inside an open scope has emitted Return(None).
C14_Witness ==
    /\ Top.i > 0
    /\ OpAt(Top.f, Top.i - 1).op = "Ret"
    /\ ResolveType(regtype(Top.f, OpAt(Top.f, Top.i - 1).ret)).k = "Void"
    /\ Top.emitted # <<>>
    /\ Top.emitted[Len(Top.emitted)] = Return(None)

\* The first call lifts a method whose opcodes are CallThis {dst=r1, field,
\* args=[]} and Ret r1, with no debug name at the call and a called method
\* that is not known to return void.
CallThisSeed(field) ==
    /\ is_method(EntryFn)
    /\ EntryFn.ops = <<[op |-> "CallThis", dst |-> 1, field |-> field, args |-> <<>>],
                       [op |-> "Ret", ret |-> 1]>>
    /\ ~is_void(regtype(EntryFn, 1))
    /\ var_name(EntryFn, 0) = None
    /\ ~ReturnsVoid(ThisMethod(NewState(EntryFn), field))

\* C15: a method whose opcodes are CallThis {dst=r1, field=f, args=[]} and
\* Ret r1, non-void and with no debug name at the call, lifts to exactly one
\* statement, the Return of the call on Field(This, name of f); no call
\* statement and no assignment is emitted.
C15_CallThisSeed ==
    \A field \in 0..1 :
        (CallThisSeed(field) /\ status # "running") =>
            /\ status = "done"
            /\ result = <<Return(Some(call(Field(cst_this,
                                                 ResolveString(ThisMethod(NewState(EntryFn), field).name)),
                                           <<>>)))>>
            /\ frames[1].emitted = result

\* The method [CallThis f; Ret r1] has been lifted to one Return.
C15_Witness ==
    /\ CallThisSeed(0)
    /\ status = "done"
    /\ result = <<Return(Some(call(Field(cst_this, "f"), <<>>)))>>

CallKinds == {"Call1", "Call2", "Call3", "Call4", "CallN"}

\* The current opcode is a call with a first argument.
AtCall ==
    /\ status = "running"
    /\ Top.i < Len(Top.f.ops)
    /\ Cur.op \in CallKinds
    /\ Cur.args # <<>>

\* The current opcode is a New on a register of Obj or Struct type.
AtNewObj ==
    /\ status = "running"
    /\ Top.i < Len(Top.f.ops)
    /\ Cur.op = "New"
    /\ ResolveType(regtype(Top.f, Cur.dst)).k \in {"Obj", "Struct"}

\* Positions of the New opcodes on register r before position q that no call
\* with first argument r has followed yet.
NewsAwaiting(s, r, q) ==
    {p \in 0..(q - 1) :
        /\ OpAt(s.f, p).op = "New"
        /\ OpAt(s.f, p).dst = r
        /\ \A c \in (p + 1)..(q - 1) :
              ~(OpAt(s.f, c).op \in CallKinds /\ OpAt(s.f, c).args # <<>>
                /\ OpAt(s.f, c).args[1] = r)}

Max(S) == CHOOSE x \in S : \A y \in S : y <= x

\* The step of the current call is the constructor call of register r for the
\* New at position p: one ConstructorCall of the register's type over the
\* remaining arguments, kept for r when p has no debug name and assigned to
\* the variable of that name otherwise; nothing else is emitted.
StitchesConstructor(r, p) ==
    LET now == Top
        after == frames'[Len(frames)]
        made == ConstructorCall(regtype(now.f, r),
                                [a \in 1..(Len(Cur.args) - 1) |-> expr(now, Cur.args[a + 1])])
    IN  /\ Len(frames') = Len(frames)
        /\ status' = "running"
        /\ IF var_name(now.f, p) = None
           THEN /\ after.emitted = now.emitted
                /\ r \in DOMAIN after.reg_state
                /\ after.reg_state[r] = made
           ELSE /\ Len(after.emitted) = Len(now.emitted) + 1
                /\ SubSeq(after.emitted, 1, Len(now.emitted)) = now.emitted
                /\ Last(after.emitted).k = "Assign"
                /\ Last(after.emitted).variable = Variable(r, var_name(now.f, p))
                /\ Last(after.emitted).assign = made

\* A New on a register of Obj or Struct type emits no statement and stores
\* nothing for the register.
NewObjIsSilent ==
    AtNewObj =>
        /\ Len(frames') = Len(frames)
        /\ frames'[Len(frames)].emitted = Top.emitted
        /\ frames'[Len(frames)].reg_state = Top.reg_state

\* C16, as stated: a New on a register of Obj or Struct type emits nothing by
\* itself, and the next Call1..Call4 or CallN whose first argument is that
\* register produces exactly one ConstructorCall for it under the debug name
\* of the New's position, with no ordinary call and no Comment.
C16_NextCallStitches ==
    [][/\ NewObjIsSilent
       /\ (AtCall /\ ResolveType(regtype(Top.f, Cur.args[1])).k \in {"Obj", "Struct"}
              /\ NewsAwaiting(Top, Cur.args[1], Top.i) # {})
            => StitchesConstructor(Cur.args[1], Max(NewsAwaiting(Top, Cur.args[1], Top.i)))]_vars

\* C16, amended: a New on a register of Obj or Struct type emits nothing by
\* itself and leaves a Constructor context on top of the pending contexts; a
\* Call1..Call4 or CallN whose first argument is the register of the
\* Constructor context that is on top of the pending contexts at the call
\* produces exactly one ConstructorCall for it under the debug name of the
\* New's position, with no ordinary call and no Comment.
C16_TopConstructorStitches ==
    [][/\ NewObjIsSilent
       /\ AtNewObj => frames'[Len(frames)].expr_ctx =
                         Append(Top.expr_ctx, [k |-> "Constructor", reg |-> Cur.dst, pos |-> Top.i])
       /\ (AtCall /\ Top.expr_ctx # <<>> /\ Last(Top.expr_ctx).k = "Constructor"
              /\ Last(Top.expr_ctx).reg = Cur.args[1])
            => StitchesConstructor(Cur.args[1], Last(Top.expr_ctx).pos)]_vars

\* A Call2 on a newly allocated object has been folded into the assignment of
\* a ConstructorCall with one argument to the variable named at the New.
C16_Witness ==
    /\ Top.i > 1
    /\ OpAt(Top.f, Top.i - 1).op = "Call2"
    /\ OpAt(Top.f, 0).op = "New"
    /\ Len(Top.emitted) = 1
    /\ Top.emitted[1].k = "Assign"
    /\ Top.emitted[1].variable = Variable(6, Some("x"))
    /\ Top.emitted[1].assign.k = "Constructor"
    /\ Len(Top.emitted[1].assign.args) = 1

\* The opcodes at positions p..p+k of f are a New on a register whose type is
\* Virtual, followed by k SetField opcodes on that register for k distinct
\* fields of the type.
AnonymousSeed(f, p, k) ==
    /\ p >= 0 /\ p + k < Len(f.ops)
    /\ OpAt(f, p).op = "New"
    /\ ResolveType(regtype(f, OpAt(f, p).dst)).k = "Virtual"
    /\ k <= Len(ResolveType(regtype(f, OpAt(f, p).dst)).fields)
    /\ \A j \in 1..k :
        /\ OpAt(f, p + j).op = "SetField"
        /\ OpAt(f, p + j).obj = OpAt(f, p).dst
        /\ OpAt(f, p + j).field < Len(ResolveType(regtype(f, OpAt(f, p).dst)).fields)
    /\ \A j, j2 \in 1..k : j2 # j => OpAt(f, p + j2).field # OpAt(f, p + j).field

\* The structure the n stores after the New at p fill in, read before the
\* last of them.
FilledStructure(s, p, n) ==
    Anonymous(regtype(s.f, OpAt(s.f, p).dst),
              [fld \in {OpAt(s.f, p + j).field : j \in 1..n} |->
                  expr(s, OpAt(s.f, p + (CHOOSE j \in 1..n : OpAt(s.f, p + j).field = fld)).src)])

\* C17: a New on a register whose type is Virtual with n >= 1 fields, followed
\* by n SetField opcodes on that register for the n distinct fields, emits
\* nothing at the New and at the first n - 1 stores, and at the last store
\* yields one Anonymous(type, {field -> expr(src)}) with all n fields for the
\* register: kept as the register's expression when the New's position has
\* no debug name, assigned to the variable of that name otherwise; no store
\* emits an assignment to a field.
C17_AnonymousStitches ==
    [][status = "running" /\ Top.i < Len(Top.f.ops) =>
        \A k \in 0..Top.i :
            AnonymousSeed(Top.f, Top.i - k, k) =>
                LET now == Top
                    after == frames'[Len(frames)]
                    p == now.i - k
                    r == OpAt(now.f, p).dst
                    n == Len(ResolveType(regtype(now.f, r)).fields)
                IN  /\ Len(frames') = Len(frames)
                    /\ status' = "running"
                    /\ IF k < n \/ var_name(now.f, p) = None
                       THEN after.emitted = now.emitted
                       ELSE after.emitted =
                              Append(now.emitted,
                                     Assign(Unwrap(var_name(now.f, p)) \notin now.seen,
                                            Variable(r, var_name(now.f, p)),
                                            FilledStructure(now, p, n)))
                    /\ IF k < n
                       THEN after.reg_state = now.reg_state
                       ELSE after.reg_state =
                              Insert(now.reg_state, r,
                                     IF var_name(now.f, p) = None
                                     THEN FilledStructure(now, p, n)
                                     ELSE Variable(r, var_name(now.f, p)))]_vars

\* New r5; SetField r5.x; SetField r5.y at a New named x has been lifted to the
\* one assignment of a structure of two fields.
C17_Witness ==
    /\ Top.i = 3
    /\ AnonymousSeed(Top.f, 0, 2)
    /\ Len(Top.emitted) = 1
    /\ Top.emitted[1].k = "Assign"
    /\ Top.emitted[1].variable = Variable(5, Some("x"))
    /\ Top.emitted[1].assign.k = "Anonymous"
    /\ DOMAIN Top.emitted[1].assign.fields = {0, 1}

\* The current opcode is a JAlways with a positive offset whose target is
\* preceded by a backward JAlways, and a loop is open.
AtBreakJump ==
    /\ status = "running"
    /\ Top.i < Len(Top.f.ops)
    /\ Cur.op = "JAlways"
    /\ Cur.offset > 0
    /\ InLoop(Top)
    /\ Top.i + Cur.offset < Len(Top.f.ops)
    /\ OpAt(Top.f, Top.i + Cur.offset).op = "JAlways"
    /\ OpAt(Top.f, Top.i + Cur.offset).offset < 0

\* The step emits exactly one Break into the innermost scope.
EmitsBreak ==
    /\ Len(frames') = Len(frames)
    /\ status' = "running"
    /\ frames'[Len(frames)].emitted = Append(Top.emitted, StmtBreak)
    /\ frames'[Len(frames)].scopes = advance(push_stmt(Top.scopes, StmtBreak))

\* C18, as stated: whenever a loop is open, a JAlways with positive offset k
\* at position i such that the opcode at i + k is a backward JAlways emits
\* exactly one Break into the innermost scope.
C18_BreakInLoop == [][AtBreakJump => EmitsBreak]_vars

\* C18, amended: whenever a loop is open and the innermost scope is not a
\* Switch, a JAlways with positive offset k at position i such that the
\* opcode at i + k is a backward JAlways emits exactly one Break into the
\* innermost scope; with a Switch innermost it emits no statement.
C18_BreakUnlessInSwitch ==
    [][AtBreakJump =>
        IF Kinds(Top)[Len(Kinds(Top))] # "Switch"
        THEN EmitsBreak
        ELSE frames'[Len(frames)].emitted = Top.emitted]_vars

\* A forward JAlways in a loop has emitted a Break.
C18_Witness ==
    /\ Top.i > 0
    /\ OpAt(Top.f, Top.i - 1).op = "JAlways"
    /\ OpAt(Top.f, Top.i - 1).offset > 0
    /\ Top.emitted # <<>>
    /\ Last(Top.emitted) = StmtBreak

\* The current opcode is a JAlways with a negative offset, and a loop is open.
AtBackJump ==
    /\ status = "running"
    /\ Top.i < Len(Top.f.ops)
    /\ Cur.op = "JAlways"
    /\ Cur.offset < 0
    /\ InLoop(Top)

\* Headers of the open loops of s, outermost first.
OpenHeaders(s) ==
    LET loops == SelectSeq(s.scopes.scopes, LAMBDA sc : sc.ty = "Loop")
    IN  [j \in 1..Len(loops) |-> loops[j].start]

\* Some later JAlways jumps to the header of the innermost open loop.
LaterJumpToHeader ==
    \E j \in (Top.i + 1)..(Len(Top.f.ops) - 1) :
        /\ OpAt(Top.f, j).op = "JAlways"
        /\ j + OpAt(Top.f, j).offset + 1 = Last(OpenHeaders(Top))

\* The step emits one Continue and leaves every open loop open.
EmitsContinue ==
    /\ Len(frames') = Len(frames)
    /\ status' = "running"
    /\ frames'[Len(frames)].emitted = Append(Top.emitted, StmtContinue)
    /\ OpenHeaders(frames'[Len(frames)]) = OpenHeaders(Top)

\* The step closes the innermost loop and emits exactly one While.
ClosesLoop ==
    /\ Len(frames') = Len(frames)
    /\ status' = "running"
    /\ Len(frames'[Len(frames)].emitted) = Len(Top.emitted) + 1
    /\ SubSeq(frames'[Len(frames)].emitted, 1, Len(Top.emitted)) = Top.emitted
    /\ Last(frames'[Len(frames)].emitted).k = "While"
    /\ OpenHeaders(frames'[Len(frames)]) = Front(OpenHeaders(Top))

\* Loops of s that were closed into a While, by header.
ClosedAt(s, header) ==
    {j \in 1..Len(s.scopes.folds) :
        s.scopes.folds[j].ty = "Loop" /\ s.scopes.folds[j].start = header}

\* C19, as stated: a backward JAlways emits Continue and leaves the loop open
\* iff a later JAlways jumps to the innermost loop's header, and otherwise
\* closes the innermost loop and emits exactly one While; each loop of a
\* lifted function has yielded exactly one While.
C19_ContinueOrWhile ==
    /\ [][AtBackJump => IF LaterJumpToHeader THEN EmitsContinue ELSE ClosesLoop]_vars
    /\ [](status = "done" =>
            \A h \in 0..(Len(EntryFn.ops) - 1) :
                OpAt(EntryFn, h).op = "Label" => Cardinality(ClosedAt(frames[1], h)) = 1)

\* C19, amended: with a loop open, a backward JAlways emits Continue and
\* leaves the loop open iff a later JAlways jumps to the innermost loop's
\* header; otherwise it closes the innermost loop and emits exactly one While
\* when that loop is the innermost scope, and aborts with "Last scope is not
\* a loop !" when another scope is innermost.  Each loop yields at most one
\* While.
C19_ContinueWhileOrAbort ==
    /\ [][AtBackJump =>
            IF LaterJumpToHeader THEN EmitsContinue
            ELSE IF Kinds(Top)[Len(Kinds(Top))] = "Loop" THEN ClosesLoop
            ELSE /\ status' = "panicked"
                 /\ panic' = "Last scope is not a loop !"
                 /\ frames'[Len(frames)].emitted = Top.emitted]_vars
    /\ [](\A n \in Frames : \A h \in 0..(Len(frames[n].f.ops) - 1) :
            Cardinality(ClosedAt(frames[n], h)) <= 1)

\* A loop with two backward jumps to its header has been lifted: the first
\* gave a Continue inside the While the second gave.
C19_Witness ==
    /\ status = "done"
    /\ Len(result) = 1
    /\ result[1].k = "While"
    /\ \E j \in 1..Len(result[1].stmts) : result[1].stmts[j] = StmtContinue

\* Number of fields the type inherits: the fields of its parent.
Inherited(t) ==
    IF t.super_ = None THEN 0 ELSE Len(ResolveType(Unwrap(t.super_)).fields)

\* Own indices of the fields of t that no binding is keyed by, in own-field
\* order.
Unbound(t) ==
    SelectSeq([j \in 1..Len(t.own_fields) |-> j - 1],
              LAMBDA i : (i + Inherited(t)) \notin DOMAIN t.bindings)

\* The fields C20 says decompile_class lists for t.
Listed(t, static_) ==
    [j \in 1..Len(Unbound(t)) |->
        ClassField(ResolveString(t.own_fields[Unbound(t)[j] + 1].name), static_,
                   t.own_fields[Unbound(t)[j] + 1].t)]

\* C20: the class decompile_class returns lists the unbound own fields of the
\* type in own-field order with static = false, then the unbound own fields
\* of its static counterpart (the object type of the type's global) in
\* own-field order with static = true; a field is left out exactly when its
\* own index plus the number of inherited fields is a key of the bindings of
\* the type it belongs to.
C20_FieldsInOrder ==
    class.status = "done" =>
        LET obj == ResolveType(class.obj)
            counterpart == IF obj.global = 0 THEN None
                           ELSE IF ResolveType(code.globals[obj.global]).k \in {"Obj", "Struct"}
                           THEN Some(ResolveType(code.globals[obj.global]))
                           ELSE None
        IN  class.fields =
                Listed(obj, FALSE) \o
                (IF counterpart = None THEN <<>> ELSE Listed(Unwrap(counterpart), TRUE))

\* A class with a parent has been lifted: one of its two fields is bound and
\* left out, the other is followed by a field of the static counterpart.
C20_Witness ==
    /\ class.status = "done"
    /\ ResolveType(class.obj).super_ # None
    /\ Len(ResolveType(class.obj).own_fields) = 2
    /\ Len(class.fields) = 2
    /\ class.fields[1].static_ = FALSE
    /\ class.fields[2].static_ = TRUE

\* Methods of the returned class with the given flags.
MethodsWith(static_, dynamic) ==
    {j \in 1..Len(class.methods) :
        class.methods[j].static_ = static_ /\ class.methods[j].dynamic = dynamic}

\* C21: the class decompile_class returns holds one method per entry of the
\* type's bindings, instance and dynamic, one per entry of the static
\* counterpart's bindings, static and dynamic, and one per proto, instance
\* and not dynamic, and no other method.
C21_MethodsByOrigin ==
    class.status = "done" =>
        LET obj == ResolveType(class.obj)
            sbindings == IF class.static_type = None THEN {}
                         ELSE DOMAIN Unwrap(class.static_type).bindings
        IN  /\ Len(class.methods) =
                  Cardinality(DOMAIN obj.bindings) + Cardinality(sbindings) + Len(obj.protos)
            /\ Cardinality(MethodsWith(FALSE, TRUE)) = Cardinality(DOMAIN obj.bindings)
            /\ Cardinality(MethodsWith(TRUE, TRUE)) = Cardinality(sbindings)
            /\ Cardinality(MethodsWith(FALSE, FALSE)) = Len(obj.protos)

\* The opcodes whose whole handler is one push_expr(i, dst, e).
PushExprKinds == {"Int", "Null", "Add"}

AtPushExpr == status = "running" /\ Top.i < Len(Top.f.ops) /\ Cur.op \in PushExprKinds

\* The expression the handler of the current opcode hands to push_expr.
PushedExpr ==
    CASE Cur.op = "Int" -> cst_int(code.ints[Cur.ptr + 1])
      [] Cur.op = "Null" -> cst_null
      [] OTHER -> add(expr(Top, Cur.a), expr(Top, Cur.b))

\* C23: push_expr(i, dst, e) with no debug name at i only sets
\* register-state[dst] to e: no statement is emitted and seen is unchanged.
\* With a name n it sets register-state[dst] to Variable(dst, n), appends
\* exactly one Assign{declaration = (n not in seen), Variable(dst, n), e} to
\* the innermost scope and leaves n in seen.  No other register changes.
C23_PushExprEffect ==
    [][AtPushExpr =>
        LET now == Top
            after == frames'[Len(frames)]
            name == var_name(now.f, now.i)
            dst == Cur.dst
            e == PushedExpr
            assign == Assign(Unwrap(name) \notin now.seen, Variable(dst, name), e)
        IN  /\ Len(frames') = Len(frames)
            /\ status' = "running"
            /\ \A r \in (DOMAIN now.reg_state \cup DOMAIN after.reg_state) \ {dst} :
                    /\ r \in DOMAIN now.reg_state
                    /\ r \in DOMAIN after.reg_state
                    /\ after.reg_state[r] = now.reg_state[r]
            /\ dst \in DOMAIN after.reg_state
            /\ IF name = None
               THEN /\ after.reg_state[dst] = e
                    /\ after.emitted = now.emitted
                    /\ after.seen = now.seen
                    /\ after.scopes = advance(now.scopes)
               ELSE /\ after.reg_state[dst] = Variable(dst, name)
                    /\ after.emitted = Append(now.emitted, assign)
                    /\ after.seen = now.seen \cup {Unwrap(name)}
                    /\ after.scopes = advance(push_stmt(now.scopes, assign))]_vars

\* A named push_expr inside an open non-root scope re-assigned a name already
\* seen: the Assign is not a declaration and sits in the innermost scope.
C23_Witness ==
    /\ status = "running"
    /\ Top.i > 0
    /\ OpAt(Top.f, Top.i - 1).op \in PushExprKinds
    /\ var_name(Top.f, Top.i - 1) # None
    /\ Len(Top.scopes.scopes) > 1
    /\ LastScope(Top.scopes).stmts # <<>>
    /\ LET st == LastScope(Top.scopes).stmts[Len(LastScope(Top.scopes).stmts)]
       IN  /\ st = Top.emitted[Len(Top.emitted)]
           /\ st.k = "Assign"
           /\ ~st.declaration
           /\ st.variable = Variable(OpAt(Top.f, Top.i - 1).dst, var_name(Top.f, Top.i - 1))

\* The current opcode is a Ret of a register whose type is not void: its
\* handler reads the register with expr(ret) and writes no register.
AtReadingRet == AtRet /\ ResolveType(regtype(Top.f, Cur.ret)).k # "Void"

\* The two opcodes before the cursor are Rets of the same non-void register.
ReadTwice ==
    /\ status = "running"
    /\ Top.i >= 2
    /\ OpAt(Top.f, Top.i - 2).op = "Ret"
    /\ OpAt(Top.f, Top.i - 1) = OpAt(Top.f, Top.i - 2)
    /\ ResolveType(regtype(Top.f, OpAt(Top.f, Top.i - 1).ret)).k # "Void"

\* C24: reading a register with expr(reg) changes nothing in the decompiler
\* state and does not abort; it yields the stored expression, or
\* Unknown("missing expr") when the register has no entry, and two reads of
\* the same register with no write in between yield equal expressions.
C24_ExprIsPureRead ==
    /\ [][AtReadingRet =>
            LET now == Top
                after == frames'[Len(frames)]
                r == Cur.ret
            IN  /\ status' = "running"
                /\ after.err = ""
                /\ after.reg_state = now.reg_state
                /\ after.seen = now.seen
                /\ after.expr_ctx = now.expr_ctx
                /\ after.emitted =
                       Append(now.emitted,
                              Return(Some(IF r \in DOMAIN now.reg_state
                                          THEN now.reg_state[r]
                                          ELSE Unknown("missing expr"))))]_vars
    /\ [](ReadTwice =>
            /\ Len(Top.emitted) >= 2
            /\ Top.emitted[Len(Top.emitted)] = Top.emitted[Len(Top.emitted) - 1])

\* A register with no entry was read twice in a row.
C24_Witness ==
    /\ ReadTwice
    /\ OpAt(Top.f, Top.i - 1).ret \notin DOMAIN Top.reg_state
    /\ Top.emitted[Len(Top.emitted)] = Return(Some(Unknown("missing expr")))

\* The conditional jump at position 0 has been handled and opened its If.
JumpHandled ==
    /\ status = "running"
    /\ Top.i = 1
    /\ OpAt(Top.f, 0).op \in CondJumps
    /\ LastScope(Top.scopes).ty = "If"

\* C25: for every handled conditional jump and all operand values, the
\* condition handed to push_jmp is true exactly when the jump's own test, as
\* Opcode::display renders it, is false.
C25_CondNegatesTest ==
    JumpHandled =>
        (Truth(LastScope(Top.scopes).cond) = ~TestHolds(OpAt(Top.f, 0), Top.reg_state))

\* With no NaN among the operands the recorded condition is the negation of
\* the displayed test.
NegatesTestOnOrderedOperands ==
    (JumpHandled /\ \A r \in {1, 3} : ValueOf(Top.reg_state[r]).t # "nan") =>
        (Truth(LastScope(Top.scopes).cond) = ~TestHolds(OpAt(Top.f, 0), Top.reg_state))

\* The current opcode is a conditional jump with a positive offset whose
\* opcode at i + offset exists.
AtForwardCondJump ==
    /\ status = "running"
    /\ Top.i < Len(Top.f.ops)
    /\ Cur.op \in CondJumps
    /\ Cur.offset > 0
    /\ Top.i + Cur.offset < Len(Top.f.ops)

\* C26: a conditional jump at i with positive offset whose opcode at
\* i + offset is a backward JAlways sets the condition of the open loop when
\* that condition is still unset, and opens no scope; a condition once set is
\* not overwritten by a later conditional jump, which opens an If instead.
\* When the opcode at i + offset is no backward JAlways, or no loop is open,
\* the jump opens an If scope.
C26_LoopExitOrIf ==
    [][AtForwardCondJump =>
        LET now == Top
            after == frames'[Len(frames)]
            S == now.scopes
            l == LastLoopIdx(S)
            cond == JumpCond(now, Cur)
        IN  /\ status' = "running"
            /\ IF /\ IsBackJump(OpAt(now.f, now.i + Cur.offset))
                  /\ l # 0
                  /\ S.scopes[l].cond = Unknown("no condition")
               THEN /\ after.scopes.opened = S.opened
                    /\ after.scopes.scopes[l].cond = cond
               ELSE /\ after.scopes.opened = S.opened + 1
                    /\ LastScope(after.scopes)
                         = Scope("If", now.i + Cur.offset + 1, -1, cond, <<>>)
                    /\ l # 0 => after.scopes.scopes[l].cond = S.scopes[l].cond]_vars

\* C26, amended: the jump sets the condition of the innermost open loop, and
\* opens no scope, exactly when the opcode at i + offset is a backward JAlways
\* and that condition is an Unknown expression: the one the loop was opened
\* with, or one recorded from a register with no expression, which a later
\* exit test overwrites.  In every other case it opens an If scope ending at
\* i + offset + 1 and leaves the loop's condition as it is.
C26_LoopExitWhileUnknown ==
    [][AtForwardCondJump =>
        LET now == Top
            after == frames'[Len(frames)]
            S == now.scopes
            l == LastLoopIdx(S)
            cond == JumpCond(now, Cur)
        IN  /\ status' = "running"
            /\ IF /\ IsBackJump(OpAt(now.f, now.i + Cur.offset))
                  /\ l # 0
                  /\ S.scopes[l].cond.k = "Unknown"
               THEN /\ after.scopes.opened = S.opened
                    /\ after.scopes.scopes[l].cond = cond
               ELSE /\ after.scopes.opened = S.opened + 1
                    /\ LastScope(after.scopes)
                         = Scope("If", now.i + Cur.offset + 1, -1, cond, <<>>)
                    /\ l # 0 => after.scopes.scopes[l].cond = S.scopes[l].cond]_vars

\* Two exit tests of one loop have been handled: the first recorded the
\* Unknown expression of its register, the second replaced it, and no If was
\* opened.
C26_Witness ==
    /\ status = "running"
    /\ Top.i = 3
    /\ OpAt(Top.f, 0).op = "Label"
    /\ OpAt(Top.f, 1) = [op |-> "JFalse", cond |-> 1, offset |-> 2]
    /\ OpAt(Top.f, 2) = [op |-> "JTrue", cond |-> 1, offset |-> 1]
    /\ IsBackJump(OpAt(Top.f, 3))
    /\ Top.scopes.opened = 1
    /\ LastScope(Top.scopes).ty = "Loop"
    /\ LastScope(Top.scopes).cond = not(Unknown("missing expr"))

\* The current opcode is a JAlways with a positive offset, met while the
\* innermost scope is an If.
AtJumpOverElse ==
    /\ status = "running"
    /\ Top.i < Len(Top.f.ops)
    /\ Cur.op = "JAlways"
    /\ Cur.offset > 0
    /\ last_is_if(Top.scopes)

\* The innermost If of the current state has become an If/Else whose else
\* branch is open until i + offset + 1.
OpensElse ==
    /\ status' = "running"
    /\ Len(frames'[Len(frames)].scopes.scopes) = Len(Top.scopes.scopes)
    /\ LastScope(frames'[Len(frames)].scopes)
         = [LastScope(Top.scopes) EXCEPT !.ty = "Else",
                                         !.end = Top.i + Cur.offset + 1,
                                         !.then_ = LastScope(Top.scopes).stmts,
                                         !.stmts = <<>>]
    /\ frames'[Len(frames)].emitted = Top.emitted

\* A step that folds the innermost If/Else appends one If statement whose
\* then branch is the one kept at the jump and whose else branch is what was
\* gathered since.
ElseFolds ==
    (/\ status = "running" /\ status' = "running"
     /\ Len(frames') = Len(frames)
     /\ LastScope(Top.scopes).ty = "Else"
     /\ Len(frames'[Len(frames)].scopes.scopes) = Len(Top.scopes.scopes) - 1)
    => LET sc == LastScope(Top.scopes)
           new == SubSeq(frames'[Len(frames)].emitted, Len(Top.emitted) + 1,
                         Len(frames'[Len(frames)].emitted))
           into == LastScope(frames'[Len(frames)].scopes).stmts
       IN  /\ into # <<>>
           /\ into[Len(into)] = StmtIf(sc.cond, sc.then_, Some(sc.stmts \o new))

\* C27: a JAlways at i with positive offset, met while the innermost scope is
\* an If, turns that If into an If/Else and opens the else branch with
\* end-offset i + offset + 1; the statements emitted up to that end-offset
\* become the else branch of the same If statement.
C27_ElseAfterIf ==
    [][(AtJumpOverElse => OpensElse) /\ ElseFolds]_vars

\* C27, amended: the If becomes an If/Else only when no loop is open around
\* it.  With a loop open the If stays as it is; the jump emits a Break when the
\* opcode before its target is a backward JAlways and nothing otherwise.
C27_ElseAfterIfOutsideLoops ==
    [][/\ (AtJumpOverElse /\ last_loop_start(Top.scopes) = None) => OpensElse
       /\ (AtJumpOverElse /\ last_loop_start(Top.scopes) # None
             /\ Top.i + Cur.offset < Len(Top.f.ops))
            => /\ status' = "running"
               /\ frames'[Len(frames)].scopes = advance(
                     IF IsBackJump(OpAt(Top.f, Top.i + Cur.offset))
                     THEN push_stmt(Top.scopes, StmtBreak) ELSE Top.scopes)
               /\ frames'[Len(frames)].emitted =
                     IF IsBackJump(OpAt(Top.f, Top.i + Cur.offset))
                     THEN Append(Top.emitted, StmtBreak) ELSE Top.emitted
       /\ ElseFolds]_vars

\* The call returned an If statement with a then branch and a non-empty else
\* branch.
C27_Witness ==
    /\ status = "done"
    /\ result # <<>>
    /\ result[Len(result)].k = "If"
    /\ result[Len(result)].else_ # None
    /\ Unwrap(result[Len(result)].else_) # <<>>
    /\ result[Len(result)].stmts # <<>>

AtSwitch == status = "running" /\ Top.i < Len(Top.f.ops) /\ Cur.op = "Switch"

\* The current opcode is a forward JAlways met while a Switch is the innermost
\* scope, at a position that is one of the Switch's case targets.
AtCaseJump ==
    /\ status = "running"
    /\ Top.i < Len(Top.f.ops)
    /\ Cur.op = "JAlways"
    /\ Cur.offset > 0
    /\ LastScope(Top.scopes).ty = "Switch"
    /\ \E k \in 1..Len(LastScope(Top.scopes).offsets) :
            LastScope(Top.scopes).offsets[k] = Top.i

\* Least index (from 0) of a case target equal to p.
LeastCase(offsets, p) ==
    (CHOOSE k \in 1..Len(offsets) :
        offsets[k] = p /\ \A q \in 1..Len(offsets) : offsets[q] = p => k <= q) - 1

\* The Switch scope once the jump at the current position has started its
\* case: the statements gathered so far are the default segment when no case
\* was open, and the body of the open case otherwise.
CaseStarted ==
    LET sc == LastScope(Top.scopes)
    IN  [sc EXCEPT !.cur = Some(LeastCase(sc.offsets, Top.i)),
                   !.stmts = <<>>,
                   !.then_ = IF sc.cur = None THEN sc.stmts ELSE @,
                   !.cases = IF sc.cur = None THEN @
                             ELSE Append(@, [pattern |-> Unwrap(sc.cur), stmts |-> sc.stmts])]

\* C28: Switch at position i with relative offsets o[0..n) and end e opens a
\* Switch scope with the absolute case targets i + o[k] and end-offset
\* i + e + 1.  While that Switch is the innermost scope a forward JAlways at
\* position p starts case k, the least index with i + o[k] = p, and the
\* statements emitted before the first such JAlways are the default segment.
C28_SwitchCases ==
    [][/\ AtSwitch =>
            /\ status' = "running"
            /\ frames'[Len(frames)].scopes
                 = advance(PushScope(Top.scopes,
                      Scope("Switch", Top.i + Cur.end + 1, -1, expr(Top, Cur.reg),
                            [k \in 1..Len(Cur.offsets) |-> Top.i + Cur.offsets[k]])))
            /\ frames'[Len(frames)].emitted = Top.emitted
       /\ AtCaseJump =>
            /\ status' = "running"
            /\ frames'[Len(frames)].scopes
                 = advance([Top.scopes EXCEPT !.scopes[Len(Top.scopes.scopes)] = CaseStarted])
            /\ frames'[Len(frames)].emitted = Top.emitted]_vars

\* The call returned a Switch statement whose case targets were out of order:
\* a non-empty default segment, then the case of the first target, started by
\* the jump at that target.
C28_Witness ==
    /\ status = "done"
    /\ OpAt(Top.f, 0).op = "Switch"
    /\ OpAt(Top.f, 0).offsets = <<2, 1>>
    /\ result # <<>>
    /\ result[1].k = "Switch"
    /\ result[1].default # <<>>
    /\ Len(result[1].cases) = 1
    /\ result[1].cases[1].pattern = 0

AtMov == status = "running" /\ Top.i < Len(Top.f.ops) /\ Cur.op = "Mov"

\* C29: after Mov {dst, src} at position i, expr(src) and expr(dst) return
\* the same expression, for every prior state, with or without a debug name at
\* i, and also when dst = src.
C29_MovAliases ==
    [][AtMov =>
        /\ status' = "running"
        /\ expr(frames'[Len(frames)], Cur.src) = expr(frames'[Len(frames)], Cur.dst)]_vars

\* With a debug name at i, or with dst = src, both registers read as
\* Variable(dst, name) after the Mov; with no name and dst # src the source
\* reads as Variable(dst, None) and the destination as the expression copied.
MovReadsAfter ==
    [][AtMov =>
        LET after == frames'[Len(frames)]
            name == var_name(Top.f, Top.i)
        IN  /\ status' = "running"
            /\ expr(after, Cur.src) = Variable(Cur.dst, name)
            /\ expr(after, Cur.dst) = IF name # None \/ Cur.dst = Cur.src
                                      THEN Variable(Cur.dst, name)
                                      ELSE expr(Top, Cur.src)]_vars

\* The call at the current opcode is not folded into a pending constructor:
\* the top context is not a Constructor of the call's first argument.
NotFolded ==
    ~(/\ Top.expr_ctx # <<>>
      /\ Last(Top.expr_ctx).k = "Constructor"
      /\ Last(Top.expr_ctx).reg = Cur.args[1])

\* The statements the current step emits.
EmittedNow ==
    SubSeq(frames'[Len(frames)].emitted, Len(Top.emitted) + 1,
           Len(frames'[Len(frames)].emitted))

\* The step emits the Comment with the callee's display id and one call: an
\* ExprStmt for a callee that returns void, through push_expr otherwise.
EmitsCommentAndCall ==
    /\ status' = "running"
    /\ EmittedNow # <<>>
    /\ EmittedNow[1] = comment(display_id(Cur.fun))
    /\ IF is_void(RefFunTy(Cur.fun).ret)
       THEN /\ Len(EmittedNow) = 2
            /\ EmittedNow[2].k = "ExprStmt"
            /\ EmittedNow[2].e.k = "Call"
       ELSE IF var_name(Top.f, Top.i) = None
            THEN /\ Len(EmittedNow) = 1
                 /\ Cur.dst \in DOMAIN frames'[Len(frames)].reg_state
                 /\ frames'[Len(frames)].reg_state[Cur.dst].k = "Call"
            ELSE /\ Len(EmittedNow) = 2
                 /\ EmittedNow[2].k = "Assign"
                 /\ EmittedNow[2].variable = Variable(Cur.dst, var_name(Top.f, Top.i))
                 /\ EmittedNow[2].assign.k = "Call"

\* C30: every Call1..Call4/CallN that is not folded into a pending
\* constructor emits a Comment with the callee's display id and exactly one
\* call, as an ExprStmt when the callee returns void and through
\* push_expr(i, dst, call) otherwise; no such call is dropped without output,
\* whatever the pending context stack holds.
C30_CallsAlwaysEmit ==
    [][(AtCall /\ NotFolded) => EmitsCommentAndCall]_vars

\* A call that is not folded is dropped exactly when the top context is a
\* Constructor (of another register); otherwise it emits the Comment and the
\* call.
CallDroppedUnderOtherConstructor ==
    [][(AtCall /\ NotFolded) =>
        IF Top.expr_ctx # <<>> /\ Last(Top.expr_ctx).k = "Constructor"
        THEN /\ status' = "running"
             /\ EmittedNow = <<>>
             /\ frames'[Len(frames)].reg_state = Top.reg_state
        ELSE EmitsCommentAndCall]_vars

\* The call at the current opcode folds the Constructor context on top of the
\* stack: its first argument is that context's register.
AtFoldingCall ==
    /\ AtCall
    /\ Top.expr_ctx # <<>>
    /\ Last(Top.expr_ctx).k = "Constructor"
    /\ Last(Top.expr_ctx).reg = Cur.args[1]

\* C31: a Call1..Call4 or CallN that folds the topmost pending Constructor
\* context into a ConstructorCall pops that context in the same step, so the
\* stack is as deep as before the New and later calls and field sets do not
\* belong to the finished constructor.
C31_FoldPopsContext ==
    [][AtFoldingCall =>
        /\ status' = "running"
        /\ frames'[Len(frames)].expr_ctx = Front(Top.expr_ctx)]_vars

\* Call1..Call4 pop the folded context; CallN leaves it on the stack.
FoldPopsUnlessCallN ==
    [][AtFoldingCall =>
        /\ status' = "running"
        /\ frames'[Len(frames)].expr_ctx
             = IF Cur.op = "CallN" THEN Top.expr_ctx ELSE Front(Top.expr_ctx)]_vars

AtSetField == status = "running" /\ Top.i < Len(Top.f.ops) /\ Cur.op = "SetField"

\* The Anonymous context on top of the stack, opened by the New at its pos,
\* belongs to the register that New allocated.
AnonymousOf(ctx) == OpAt(Top.f, ctx.pos).dst

\* C32: while an Anonymous context opened by New dst is pending, only a
\* SetField whose obj is dst consumes one of its slots, and the Anonymous
\* expression is stored for dst when the last slot is consumed; a SetField on
\* another object neither decrements remaining nor adds to the fields map.
C32_OnlyOwnStoresConsume ==
    [][(AtSetField /\ Top.expr_ctx # <<>> /\ Last(Top.expr_ctx).k = "Anonymous"
          /\ Last(Top.expr_ctx).remaining > 0)
        => LET ctx == Last(Top.expr_ctx)
               after == frames'[Len(frames)]
           IN  IF Cur.obj = AnonymousOf(ctx)
               THEN IF ctx.remaining = 1
                    THEN /\ after.expr_ctx = Front(Top.expr_ctx)
                         /\ AnonymousOf(ctx) \in DOMAIN after.reg_state
                         /\ after.reg_state[AnonymousOf(ctx)].k
                              \in {"Anonymous", "Variable"}
                    ELSE /\ after.expr_ctx # <<>>
                         /\ Last(after.expr_ctx).remaining = ctx.remaining - 1
               ELSE after.expr_ctx = Top.expr_ctx]_vars

\* Whatever its object, a SetField met with an Anonymous context on top
\* consumes a slot of it; the filled structure is stored for the object of the
\* last store.
AnyStoreConsumes ==
    [][(AtSetField /\ Top.expr_ctx # <<>> /\ Last(Top.expr_ctx).k = "Anonymous"
          /\ Last(Top.expr_ctx).remaining > 0)
        => LET ctx == Last(Top.expr_ctx)
               after == frames'[Len(frames)]
               fields == Insert(ctx.fields, Cur.field, expr(Top, Cur.src))
           IN  IF ctx.remaining = 1
               THEN /\ after.expr_ctx = Front(Top.expr_ctx)
                    /\ Cur.obj \in DOMAIN after.reg_state
                    /\ after.reg_state[Cur.obj] =
                         IF var_name(Top.f, ctx.pos) = None
                         THEN Anonymous(regtype(Top.f, Cur.obj), fields)
                         ELSE Variable(Cur.obj, var_name(Top.f, ctx.pos))
               ELSE after.expr_ctx = Append(Front(Top.expr_ctx),
                        [ctx EXCEPT !.fields = fields, !.remaining = ctx.remaining - 1])]_vars

\* The SetField at the current opcode is not consumed by an Anonymous
\* accumulation: no Anonymous context is on top of the stack.
AtPlainSetField ==
    /\ AtSetField
    /\ (Top.expr_ctx = <<>> \/ Last(Top.expr_ctx).k # "Anonymous")

\* The Assign of a plain field store.
FieldAssign ==
    Assign(FALSE, ast_field(expr(Top, Cur.obj), regtype(Top.f, Cur.obj), Cur.field),
           expr(Top, Cur.src))

\* C33: every SetField that is not consumed by a pending Anonymous
\* accumulation emits exactly one Assign{declaration = false,
\* Field(expr(obj), field name), expr(src)}, whatever else is on the pending
\* context stack, and leaves the context stack as it found it.
C33_PlainStoreAssigns ==
    [][AtPlainSetField =>
        /\ status' = "running"
        /\ frames'[Len(frames)].emitted = Append(Top.emitted, FieldAssign)
        /\ frames'[Len(frames)].expr_ctx = Top.expr_ctx]_vars

\* A plain SetField emits its Assign only when the context stack is empty;
\* under a Constructor context it emits nothing.  The stack is left as found.
PlainStoreAssignsOnEmptyStack ==
    [][AtPlainSetField =>
        /\ status' = "running"
        /\ frames'[Len(frames)].emitted =
             IF Top.expr_ctx = <<>> THEN Append(Top.emitted, FieldAssign) ELSE Top.emitted
        /\ frames'[Len(frames)].reg_state = Top.reg_state
        /\ frames'[Len(frames)].expr_ctx = Top.expr_ctx]_vars

\* The step stores an Anonymous expression: the last slot of the context on
\* top of the stack is consumed.
StoresAnonymous ==
    /\ AtSetField
    /\ Top.expr_ctx # <<>>
    /\ Last(Top.expr_ctx).k = "Anonymous"
    /\ Last(Top.expr_ctx).remaining = 1
    /\ status' = "running"

\* The structure that step hands to push_expr.
StoredAnonymous ==
    Anonymous(regtype(Top.f, Cur.obj),
              Insert(Last(Top.expr_ctx).fields, Cur.field, expr(Top, Cur.src)))

Cardinal(m) == Cardinality(DOMAIN m)

\* C38: the remaining counter of a pending Anonymous context is never
\* decremented at 0, also for a Virtual type with no fields, and an Anonymous
\* expression that is emitted has as many entries in its fields map as the
\* Virtual type has fields.
C38_RemainingCountsFields ==
    [][/\ (AtSetField /\ Top.expr_ctx # <<>> /\ Last(Top.expr_ctx).k = "Anonymous")
            => Last(Top.expr_ctx).remaining > 0
       /\ StoresAnonymous =>
            Cardinal(StoredAnonymous.fields)
              = Len(ResolveType(regtype(Top.f,
                        OpAt(Top.f, Last(Top.expr_ctx).pos).dst)).fields)]_vars

\* The step starts the lift of a closure's body: a state the caller has no
\* part in, and the Comment in the caller.
BodyStartsFresh ==
    Len(frames') = Len(frames) + 1 =>
        LET body == frames'[Len(frames')]
        IN  /\ body = NewState(Unwrap(resolve_as_fn(Cur.fun)))
            /\ body.seen = ArgNames(body.f)
            /\ body.scopes = ScopesNew
            /\ body.expr_ctx = <<>>
            /\ frames'[Len(frames)] = PushStmt(Top, ClosureComment(Cur))

\* A step of the body leaves every caller as it is.
BodyLeavesCallers ==
    (Len(frames) > 1 /\ Len(frames') >= Len(frames)) =>
        SubSeq(frames', 1, Len(frames) - 1) = SubSeq(frames, 1, Len(frames) - 1)

\* The body returns: the caller changes by the push_expr of the Closure into
\* dst and by the iteration's advance, and by nothing that depends on the body
\* but the Closure expression itself.
BodyReturnsClosure ==
    Len(frames') = Len(frames) - 1 =>
        LET caller == frames[Len(frames) - 1]
            after == frames'[Len(frames')]
            o == OpAt(caller.f, caller.i)
            name == var_name(caller.f, caller.i)
            closure == Closure(o.fun, Returned(Top))
            assign == Assign(Unwrap(name) \notin caller.seen, Variable(o.dst, name), closure)
        IN  /\ after.expr_ctx = caller.expr_ctx
            /\ DOMAIN after.reg_state = DOMAIN caller.reg_state \cup {o.dst}
            /\ \A r \in DOMAIN caller.reg_state \ {o.dst} :
                    after.reg_state[r] = caller.reg_state[r]
            /\ IF name = None
               THEN /\ after.reg_state[o.dst] = closure
                    /\ after.seen = caller.seen
                    /\ after.emitted = caller.emitted
                    /\ after.scopes = advance(caller.scopes)
               ELSE /\ after.reg_state[o.dst] = Variable(o.dst, name)
                    /\ after.seen = caller.seen \cup {Unwrap(name)}
                    /\ after.emitted = Append(caller.emitted, assign)
                    /\ after.scopes = advance(push_stmt(caller.scopes, assign))

\* C34: the lift of a closure's body runs on a fresh decompiler state and
\* shares nothing with the lift that met the closure: the caller's scope
\* stack, seen set, pending contexts and registers other than dst are after
\* the closure opcode what an empty body would leave, apart from the Comment
\* and the push_expr of the Closure into dst; the names declared in the body
\* do not enter the caller's seen set, nor the caller's the body's.
C34_ClosureSharesNothing ==
    [][BodyStartsFresh /\ BodyLeavesCallers /\ BodyReturnsClosure]_vars

\* Statements that are a declaring Assign of a name.
DeclaredIn(stmts) ==
    {Unwrap(stmts[j].variable.name) :
        j \in {q \in 1..Len(stmts) : IsNamedAssign(stmts[q]) /\ stmts[q].declaration}}

\* A closure whose body declared a name has been stored in r1 of a caller
\* that has seen another name, and the body's name is not among the caller's.
C34_Witness ==
    /\ Len(frames) = 1
    /\ status = "running"
    /\ Top.seen # {}
    /\ 1 \in DOMAIN Top.reg_state
    /\ Top.emitted # <<>>
    /\ LET st == Top.emitted[Len(Top.emitted)]
       IN  /\ st.k = "Assign"
           /\ st.assign.k = "Closure"
           /\ DeclaredIn(st.assign.stmts) # {}
           /\ DeclaredIn(st.assign.stmts) \cap Top.seen = {}

\* ---------------------------------------------------------------------------
\* C35: Type::display ends for every pool, cyclic or not, and a type already
\* on the trail of the current display path is displayed as "Self".
\* ---------------------------------------------------------------------------

\* The trail a call of display_rec was handed: its caller's, none for the
\* call made by Type::display.
TrailOf(k) == IF k = 1 THEN <<>> ELSE frames[k - 1].parents

OnTrail(t, parents) == \E j \in 1..Len(parents) : parents[j] = t

\* Every call on the stack answers "Self" exactly when its type is on the
\* trail it was handed, no trail holds a type twice, and the stack is never
\* deeper than one call per pool type and the call that answers "Self".
TrailBreaksCycles ==
    status = "running" =>
        /\ Len(frames) <= MaxTrail
        /\ \A k \in 1..Len(frames) :
              /\ frames[k].self <=> OnTrail(frames[k].ty, TrailOf(k))
              /\ \A a, b \in 1..Len(frames[k].parents) :
                    frames[k].parents[a] = frames[k].parents[b] => a = b

\* C35: every display of a type of a finite pool returns, and on the way a
\* type that is already on the trail of the current path is answered with
\* "Self" instead of being entered again.
C35_DisplayTerminates == <>(status = "done") /\ []TrailBreaksCycles

\* A display that has returned for a type that is part of a cycle through
\* another type of the pool, with "Self" in its text.
C35_Witness ==
    /\ status = "done"
    /\ \E j \in 1..Len(result) : result[j] = "Self"
    /\ LET own == Members(code.types[entry])
       IN  /\ own # <<>>
           /\ \A j \in 1..Len(own) : own[j] # entry

\* ---------------------------------------------------------------------------
\* C36: in a function whose Labels are all closed by a backward JAlways and
\* whose jumps all land inside it, the final backward JAlways of a loop finds
\* that loop innermost.
\* ---------------------------------------------------------------------------

\* The position a jump at j with this offset lands on.
JumpTarget(j, offset) == j + offset + 1

\* Every Label of f is the target of a later JAlways, and every jump of f
\* lands on a position of f.
LoopsMatched(f) ==
    LET last == Len(f.ops) - 1
    IN  /\ \A h \in 0..last :
              OpAt(f, h).op = "Label" =>
                  \E j \in (h + 1)..last :
                      /\ OpAt(f, j).op = "JAlways"
                      /\ JumpTarget(j, OpAt(f, j).offset) = h
        /\ \A j \in 0..last :
              OpAt(f, j).op \in CondJumps \cup {"JAlways"} =>
                  JumpTarget(j, OpAt(f, j).offset) \in 0..last

\* The function holds nothing but Labels, jumps and returns: no scope is
\* opened by a Switch or a Trap.
JumpsOnly(f) ==
    \A j \in 0..(Len(f.ops) - 1) :
        OpAt(f, j).op \in CondJumps \cup {"Label", "JAlways", "Ret"}

\* C36: when the last backward JAlways of a loop is processed in such a
\* function, the innermost open scope is that loop and the step closes it with
\* its While; "Last scope is not a loop !" is never raised.  Stated for the
\* functions of Labels, jumps and returns, which hold the loops with further
\* exit tests after the loop condition has been set.
C36_FinalJumpFindsLoop ==
    [][(AtBackJump /\ ~LaterJumpToHeader /\ LoopsMatched(Top.f) /\ JumpsOnly(Top.f))
         => /\ Kinds(Top)[Len(Kinds(Top))] = "Loop"
            /\ ClosesLoop]_vars

\* ---------------------------------------------------------------------------
\* C37: with a loop open and no Switch innermost, a forward JAlways opens no
\* else branch.
\* ---------------------------------------------------------------------------

\* A JAlways with offset >= 0 is about to be processed with a loop open, the
\* innermost scope is not a Switch, and the opcode before its target exists.
AtForwardJumpInLoop ==
    /\ status = "running"
    /\ Top.i < Len(Top.f.ops)
    /\ Cur.op = "JAlways"
    /\ Cur.offset >= 0
    /\ InLoop(Top)
    /\ Kinds(Top)[Len(Kinds(Top))] # "Switch"
    /\ Top.i + Cur.offset < Len(Top.f.ops)

\* The step emits one Break when the opcode before the target is a backward
\* JAlways and nothing otherwise; beyond that the scope stack only advances,
\* and the registers, the seen set and the pending contexts stay.
BreakOrNothing ==
    LET brk == IsBackJump(OpAt(Top.f, Top.i + Cur.offset))
        after == frames'[Len(frames)]
    IN  /\ Len(frames') = Len(frames)
        /\ status' = "running"
        /\ after.scopes = advance(IF brk THEN push_stmt(Top.scopes, StmtBreak)
                                  ELSE Top.scopes)
        /\ after.emitted = IF brk THEN Append(Top.emitted, StmtBreak) ELSE Top.emitted
        /\ after.reg_state = Top.reg_state
        /\ after.seen = Top.seen
        /\ after.expr_ctx = Top.expr_ctx

\* C37: while a loop is open and the innermost scope is not a Switch, a
\* forward JAlways opens no else branch, also under an If nested in the loop:
\* it emits one Break when the opcode before its target is a backward JAlways
\* and changes nothing otherwise.
C37_NoElseInLoop == [][AtForwardJumpInLoop => BreakOrNothing]_vars

\* A forward JAlways has been passed under an If nested in a loop: the If is
\* still an If, no else branch is open and nothing was emitted.
C37_Witness ==
    /\ status = "running"
    /\ Top.i >= 2
    /\ Top.i < Len(Top.f.ops)
    /\ OpAt(Top.f, Top.i - 1).op = "JAlways"
    /\ OpAt(Top.f, Top.i - 1).offset > 0
    /\ OpAt(Top.f, Top.i - 2).op \in CondJumps
    /\ InLoop(Top)
    /\ LastScope(Top.scopes).ty = "If"
    /\ \A j \in 1..Len(Kinds(Top)) : Kinds(Top)[j] # "Else"
    /\ Top.emitted = <<>>

\* ---------------------------------------------------------------------------
\* C39: a conditional jump whose offset is zero or negative has no effect.
\* ---------------------------------------------------------------------------

\* A conditional jump with an offset <= 0 is about to be processed.
AtCondJumpBack ==
    /\ status = "running"
    /\ Top.i < Len(Top.f.ops)
    /\ Cur.op \in CondJumps
    /\ Cur.offset <= 0

\* C39: a conditional jump with an offset of zero or less opens no scope,
\* sets no loop condition and emits no statement: after it the scope stack is
\* the one before it advanced by one opcode, and the registers, the seen set
\* and the pending contexts are the same.
C39_BackwardTestDoesNothing ==
    [][AtCondJumpBack =>
        LET after == frames'[Len(frames)]
        IN  /\ Len(frames') = Len(frames)
            /\ status' = "running"
            /\ after.scopes = advance(Top.scopes)
            /\ after.emitted = Top.emitted
            /\ after.reg_state = Top.reg_state
            /\ after.seen = Top.seen
            /\ after.expr_ctx = Top.expr_ctx]_vars

\* A conditional jump back to the Label has been passed inside a loop whose
\* condition is still unset: the loop is the only open scope, its condition
\* is still Unknown and nothing was emitted.
C39_Witness ==
    /\ status = "running"
    /\ Top.i >= 2
    /\ Top.i < Len(Top.f.ops)
    /\ OpAt(Top.f, Top.i - 1).op \in CondJumps
    /\ OpAt(Top.f, Top.i - 1).offset < 0
    /\ Kinds(Top) = <<"Root", "Loop">>
    /\ Unwrap(last_loop_cond_mut(Top.scopes)).k = "Unknown"
    /\ Top.emitted = <<>>

====
